---- MODULE Spec2Model ----
(***************************************************************************)
(* A model of the real-time control subsystem of song-buddy:               *)
(*                                                                         *)
(*   - useMetronome  (src/services/audio.ts): the lookahead click          *)
(*     scheduler, its worker poll timer and its audio context;             *)
(*   - useAudioMonitor and LiveMode (src/services/audio.ts,                *)
(*     src/components/LiveMode.tsx): the microphone trigger that starts    *)
(*     scrolling;                                                          *)
(*   - Prompter (src/components/Prompter.tsx): the play state machine,     *)
(*     the loudness trigger with its confidence counter and cooldown,      *)
(*     and the speech-recognition sessions of voice control.               *)
(*                                                                         *)
(* The three parts are separate React components / hooks that share no     *)
(* state, so each has its own next-state relation and specification        *)
(* (SpecMetronome, SpecLive, SpecPrompter, SpecVoice); every action        *)
(* leaves the variables of the other parts unchanged.                      *)
(***************************************************************************)
EXTENDS Integers, Sequences, FiniteSets

(***************************************************************************)
(* Bounds of the model (not program constants).                            *)
(***************************************************************************)
\* The words of an utterance.
MaxWords == 2
\* The audio clock (AudioContext.currentTime) stops advancing here.
MaxClock == 15
\* The user stops the metronome at most this many times.
MaxStops == 2
\* Date.now() of LiveMode stops advancing here.
MaxLiveNow == 6
\* startMonitoring calls that can wait for the microphone at once.
MaxPending == 2
\* initAudio calls of the Prompter that can wait for the microphone at once.
MaxInits == 1
\* scrollHeight - clientHeight of a scroller, in pixels.
MaxScroll == 3
\* scrollHeight - clientHeight of the scroller where the loudness trigger is
\* examined.
TriggerMaxScroll == 1
\* Animation frames that can run between a state update made outside a React
\* event handler and the commit of its render (frames are 16 ms apart).
MaxStaleFrames == 1
\* Pending 200 ms timers of handleScrollEnd.
MaxTimers == 1
\* SpeechRecognition objects the Prompter's voice effect creates.
MaxSessions == 3
\* Fetches of checkRealConnection that can be pending at once.
MaxChecks == 1
\* The longest bar (beatsPerBar) of a song.
MaxBars == 5
\* Beats whose sounds are followed.
MaxNotes == 4
\* Taps of one tap-tempo burst.
MaxTaps == 3
\* Calls of adjustBpm.
MaxAdjustments == 2
\* Presses of the pedal's PageDown and PageUp keys that are followed.
MaxPresses == 3
\* Entries of an imported list of songs.
MaxEntries == 2
\* Changes the user makes to the Prompter's settings.
MaxChanges == 3

(***************************************************************************)
(* ======================  useMetronome  ================================= *)
(*                                                                         *)
(* Time is counted in units of 25 ms of the audio clock (the interval of   *)
(* the worker's poll timer): the 0.05 s start offset is 2 units, the 0.1 s *)
(* lookahead 4 units, and a beat at `b` bpm lasts 60/b s = 2400/b units.   *)
(* The tempi below divide 2400, so the division is exact.                  *)
(***************************************************************************)
VARIABLES
    isPlaying,          \* useState isPlaying
    bpm,                \* useState bpm
    bpmRef,             \* bpmRef.current
    beatsPerBarRef,     \* beatsPerBarRef.current
    audioContext,       \* audioContextRef.current: "null" or its state attribute
    ctxOps,             \* resume()/suspend() requests the context has not yet carried out
    currentTime,        \* audioContext.currentTime
    nextNoteTime,       \* nextNoteTimeRef.current
    currentBeat,        \* currentBeatRef.current
    timerID,            \* the worker's timerID is set (an interval it can still clear)
    lostTimers,         \* intervals the worker started and lost the id of
    scheduleNoteCalls,  \* the calls of scheduleNote since the last start step
    queuedNotes,        \* nodes started on the audio graph whose time is still ahead
    stops,              \* how many times the user has stopped the metronome
    lateNote            \* a note queued before a stop has sounded after it

metroVars == << isPlaying, bpm, bpmRef, beatsPerBarRef, audioContext, ctxOps,
                currentTime, nextNoteTime, currentBeat, timerID, lostTimers,
                scheduleNoteCalls, queuedNotes, stops, lateNote >>

\* The state of useAudioMonitor and LiveMode (described with their actions).
VARIABLES
    isScrolling,        \* LiveMode useState isScrolling
    triggered,          \* useAudioMonitor useState triggered
    monitorEnabled,     \* the value of `enabled` the monitor effect last ran for
    monitorContext,     \* audioContextRef.current: "null" or its state
    resumePending,      \* startMonitoring calls waiting at `await resume()`
    micPending,         \* startMonitoring calls waiting at `await getUserMedia()`
    streamRef,          \* streamRef.current is set
    lostStreams,        \* open streams streamRef no longer refers to (up to MaxPending)
    analyserRef,        \* analyserRef.current is set: the analyze loop goes on
    monitorError,       \* useState error is set
    thresholdRef,       \* thresholdRef.current
    lastUpdateRef,      \* lastUpdateRef.current
    liveNow,            \* Date.now()
    sincePause,         \* "never", or whether the clock has moved since the last manual pause
    startedBy,          \* what last set isScrolling to true
    loudRun,            \* consecutive analysed frames above the threshold (up to 2)
    triggerRun,         \* loudRun when `triggered` was last raised
    containerScrollTop, \* containerRef.current.scrollTop
    containerMaxScroll, \* containerRef.current: scrollHeight - clientHeight
    containerLimit,     \* the largest scrollTop the container takes
    barHeight           \* progressBarRef.current.style.height, in percent

\* The state of the Prompter's play state machine and loudness trigger.
VARIABLES
    playState,          \* useState playState
    playStateRef,       \* playStateRef.current, and the playState the animate closure holds
    autoStartEnabled,   \* useState autoStartEnabled
    autoStartEnabledRef,\* autoStartEnabledRef.current
    audioThresholdRef,  \* audioThresholdRef.current
    maxScroll,          \* scrollerRef.current.scrollHeight - clientHeight
    scrollLimit,        \* the largest scrollTop the scroller takes
    progress,           \* useState progress, as the numerator of a fraction of maxScroll
    progressRef,        \* progressRef.current, likewise
    scrollTop,          \* scrollerRef.current.scrollTop
    isScrollingRef,     \* isScrollingRef.current: the user is touching the scroller
    settleTimers,       \* pending timers of handleScrollEnd
    audioCooldownRef,   \* audioCooldownRef.current - Date.now(), 0 once it has passed
    triggerConfidenceCounterRef, \* triggerConfidenceCounterRef.current
    promptAnalyser,     \* analyserRef.current is set: the analyzeAudio loop goes on
    initPending,        \* initAudio calls waiting at `await getUserMedia()`
    staleFrames,        \* frames run since a state update that is not yet committed
    autoTriggers,       \* how many times analyzeAudio has fired the trigger, modulo 2
    triggeredPlay,      \* the play state is PLAYING and the trigger made it so
    pauseCooldown,      \* what is left of the cooldown the last manual pause armed (-1: no pause yet)
    micStreamOpen,      \* a MediaStream from getUserMedia has tracks that were not stopped
    scrollSpeed,        \* useState scrollSpeed, in halves (4 is 2.0)
    exited,             \* onExit() was called: App unmounts the Prompter
    heard               \* the last utterance handled held a play and a pause keyword

promptVars == << playState, playStateRef, autoStartEnabled, autoStartEnabledRef,
                 audioThresholdRef, maxScroll, scrollLimit, progress, progressRef, scrollTop, isScrollingRef,
                 settleTimers, audioCooldownRef, triggerConfidenceCounterRef,
                 promptAnalyser, initPending, staleFrames, autoTriggers,
                 triggeredPlay, pauseCooldown, micStreamOpen, scrollSpeed, exited,
                 heard >>

\* The Prompter's voice control: the speech-recognition sessions.
VARIABLES
    voiceControlEnabled, \* useState voiceControlEnabled
    voiceCommitted,      \* the voiceControlEnabled the voice effect last ran for
    isOffline,           \* useState isOffline
    onLine,              \* navigator.onLine
    recognitionRef,      \* recognitionRef.current: a session's number, 0 for null
    sessions,            \* the state of each SpeechRecognition object created
    restarted,           \* sessions their onend handler started again while
                         \* recognitionRef held another session
    revived,             \* the session its onend handler last started again
                         \* after it had ended by itself, 0 for none
    denied               \* a session had the error "not-allowed" and the user
                         \* has not switched voice control on since

VARIABLES
    micError            \* useState micError

\* The state of the lazy-load revision of the Prompter (src/unnamed/part_002):
\* a record of
\*   isHardwareReady      useState isHardwareReady
\*   isOffline            useState isOffline
\*   voiceControlEnabled  useState voiceControlEnabled
\*   micError             useState micError
\*   rendered             the state of the last committed render: its effects
\*                        have run and its handlers are the registered ones
\*   onLine               the browser is connected
\*   connectionChecks     fetches of checkRealConnection still pending
\*   recognitionRef       recognitionRef.current: a session's number, 0 for null
\*   sessions             for each SpeechRecognition object created: its state
\*                        and the isOffline of the render that created it
VARIABLES
    lazy

lazyVars == << lazy >>

\* The sounds of the metronome (scheduleNote of useMetronome), beat by beat:
\* a record of
\*   beat       currentBeatRef.current
\*   bars       beatsPerBarRef.current
\*   soundType  soundTypeRef.current
\*   calls      the calls of scheduleNote: beat number, sound type, sound
VARIABLES
    drums

drumVars == << drums >>

\* The tempo controls of LiveMode.  A tempo is counted in half beats per
\* minute, so that 241 stands for 120.5 bpm.  A record of
\*   bpm          the bpm state of useMetronome as LiveMode renders it
\*   songBpm      song.metronome.bpm of the song prop
\*   written      metronome.bpm of the last song passed to onUpdate, 0 for none
\*   tapTimes     useState tapTimes, in units of 100 ms
\*   now          performance.now() at the last tap, counted from the first
\*                tap of the burst
\*   adjustments  how many times adjustBpm has run
VARIABLES
    tempo

tempoVars == << tempo >>

\* The scroll speed of LiveMode and the keys of the pedal: a record of
\*   isScrollingRef  isScrollingRef.current
\*   scrollspeed     song.scrollspeed of the song prop, and songRef.current's
\*   written         the scrollspeed last given to onUpdate, 0 for none
\*   outcome         what the last PageDown or PageUp did
\*   presses         presses of PageDown and PageUp so far
VARIABLES
    pedal

speedVars == << pedal >>

\* The library of songs (src/unnamed/part_006) and an import into it: a
\* record of
\*   parsed   JSON.parse(jsonString) of the text given to importLibrary
\*   store    the localforage store: for each id the song saved, if any
\*   result   how importLibrary ended: the count returned or the error thrown
\*   exported the store as it was when the library was exported
VARIABLES
    library

importVars == << library >>

\* A touch gesture on the Prompter's scroller (src/components/Prompter.tsx):
\* a record of
\*   touching        a finger is on the scroller (touchstart seen, touchend not yet)
\*   isScrollingRef  isScrollingRef.current
\*   timers          pending 200 ms timers of handleScrollEnd
\*   playing         playState is PLAYING
\*   scrollTop       scrollerRef.current.scrollTop
\*   counter         triggerConfidenceCounterRef.current
\*   overridden      the animation or the trigger has acted while a finger was on
\*                   the scroller
VARIABLES
    gesture

gestureVars == << gesture >>

\* The Prompter's settings and their copy in the App (src/unnamed/part_001):
\* a record of
\*   settings     scrollSpeed (in halves), fontSize, autoStartEnabled,
\*                audioThreshold and voiceControlEnabled of the Prompter
\*   saved        the settings the App's state holds for the song
\*   effectDue    a dependency of the save-settings effect has changed since
\*                it last ran
\*   appDirty     the App has a state update it has not rendered yet
\*   changes      changes the user has made
VARIABLES
    writeback

writebackVars == << writeback >>

voiceVars == << voiceControlEnabled, voiceCommitted, isOffline, onLine, recognitionRef,
                sessions, restarted, revived, denied >>

liveScrollVars == << containerScrollTop, containerMaxScroll, containerLimit, barHeight >>

otherThanVoice == << metroVars, promptVars, isScrolling, triggered, monitorEnabled,
                     monitorContext, resumePending, micPending, streamRef, lostStreams,
                     analyserRef, monitorError, thresholdRef, lastUpdateRef, liveNow,
                     sincePause, startedBy, loudRun, triggerRun, liveScrollVars, lazyVars, drumVars, tempoVars, speedVars, importVars, gestureVars, writebackVars >>

otherThanPrompter == << metroVars, voiceVars, isScrolling, triggered, monitorEnabled, monitorContext,
                        resumePending, micPending, streamRef, lostStreams, analyserRef,
                        monitorError, thresholdRef, lastUpdateRef, liveNow, sincePause,
                        startedBy, loudRun, triggerRun, liveScrollVars, lazyVars, drumVars, tempoVars, speedVars, importVars, gestureVars, writebackVars >>

otherThanMetronome == << promptVars, voiceVars, isScrolling, triggered, monitorEnabled, monitorContext,
                         resumePending, micPending, streamRef, lostStreams, analyserRef,
                         monitorError, thresholdRef, lastUpdateRef, liveNow, sincePause,
                         startedBy, loudRun, triggerRun, liveScrollVars, micError, lazyVars, drumVars, tempoVars, speedVars, importVars, gestureVars, writebackVars >>

liveVars == << isScrolling, triggered, monitorEnabled, monitorContext, resumePending,
               micPending, streamRef, lostStreams, analyserRef, monitorError,
               thresholdRef, lastUpdateRef, liveNow, sincePause, startedBy, loudRun,
               triggerRun, liveScrollVars >>

otherThanLive == << metroVars, promptVars, voiceVars, micError, lazyVars, drumVars, tempoVars, speedVars, importVars, gestureVars, writebackVars >>

otherThanLazy == << metroVars, liveVars, promptVars, voiceVars, micError, drumVars, tempoVars, speedVars, importVars, gestureVars, writebackVars >>

otherThanDrums == << metroVars, liveVars, promptVars, voiceVars, micError, lazyVars, tempoVars, speedVars, importVars, gestureVars, writebackVars >>

otherThanTempo == << metroVars, liveVars, promptVars, voiceVars, micError, lazyVars, drumVars, speedVars, importVars, gestureVars, writebackVars >>

otherThanSpeed == << metroVars, liveVars, promptVars, voiceVars, micError, lazyVars, drumVars, tempoVars, importVars, gestureVars, writebackVars >>

otherThanImport == << metroVars, liveVars, promptVars, voiceVars, micError, lazyVars, drumVars, tempoVars, speedVars, gestureVars, writebackVars >>

otherThanGesture == << metroVars, liveVars, promptVars, voiceVars, micError, lazyVars, drumVars, tempoVars, speedVars, importVars, writebackVars >>

otherThanWriteback == << metroVars, liveVars, promptVars, voiceVars, micError, lazyVars, drumVars, tempoVars, speedVars, importVars, gestureVars >>

\* const scheduleAheadTime = 0.1
scheduleAheadTime == 4
\* nextNoteTimeRef.current = audioContextRef.current.currentTime + 0.05
StartOffset == 2
\* Tempi the user can set (all within the 30..300 range of the bpm controls).
BpmValues == {240, 300}
\* Bar lengths a song can carry.
BeatsPerBarValues == {3, 4}

\* const secondsPerBeat = 60.0 / bpmRef.current, in 25 ms units
SecondsPerBeat(b) == 2400 \div b

\* nextNote: the pair << nextNoteTime, currentBeat >> after one call
NextNoteNoAdvance(t, beat, b, bars) ==
    << IF beat + 1 >= bars THEN t ELSE t + SecondsPerBeat(b),
       IF beat + 1 >= bars THEN 0 ELSE beat + 1 >>
nextNote(t, beat, b, bars) ==
    << t + SecondsPerBeat(b), IF beat + 1 >= bars THEN 0 ELSE beat + 1 >>

\* The while loop of scheduler(): every beat whose time lies before
\* currentTime + scheduleAheadTime is passed to scheduleNote, then nextNote()
\* moves on.  The result is << nextNoteTime, currentBeat, calls >>.
RECURSIVE SchedulerLoopWide(_, _, _, _, _, _)
SchedulerLoopWide(t, beat, b, bars, clock, calls) ==
    IF t <= clock + scheduleAheadTime
    THEN LET n == nextNote(t, beat, b, bars)
         IN  SchedulerLoopWide(n[1], n[2], b, bars, clock,
                               Append(calls, [time |-> t, beat |-> beat, bpm |-> b]))
    ELSE << t, beat, calls >>

RECURSIVE SchedulerLoop(_, _, _, _, _, _)
SchedulerLoop(t, beat, b, bars, clock, calls) ==
    IF t < clock + scheduleAheadTime
    THEN LET n == nextNote(t, beat, b, bars)
         IN  SchedulerLoop(n[1], n[2], b, bars, clock,
                           Append(calls, [time |-> t, beat |-> beat, bpm |-> b]))
    ELSE << t, beat, calls >>

\* The worker's message handler, on the pair << timerID, lostTimers >>.
\* "start" overwrites timerID without clearing the interval it held.
WorkerOnMessage(w, msg) ==
    CASE msg = "start" -> << TRUE, IF w[1] THEN w[2] + 1 ELSE w[2] >>
      [] msg = "stop"  -> << FALSE, w[2] >>
      [] OTHER         -> w

RECURSIVE WorkerOnMessages(_, _)
WorkerOnMessages(w, msgs) ==
    IF msgs = << >> THEN w
    ELSE WorkerOnMessages(WorkerOnMessage(w, Head(msgs)), Tail(msgs))

\* Some interval of the worker is alive and posts "tick".
WorkerTicking == timerID \/ lostTimers > 0

\* A start step without currentBeatRef.current = 0.
StartStepKeepsBeat(n) ==
    LET w == WorkerOnMessages(<< timerID, lostTimers >>, [i \in 1..n |-> "start"])
    IN  /\ currentBeat' = currentBeat
        /\ nextNoteTime' = currentTime + StartOffset
        /\ timerID' = w[1]
        /\ lostTimers' = w[2]
        /\ scheduleNoteCalls' = << >>

\* The statements of the start step of toggleMetronome that follow the await,
\* run by `n` pending start steps one after the other.
StartStep(n) ==
    LET w == WorkerOnMessages(<< timerID, lostTimers >>, [i \in 1..n |-> "start"])
    IN  /\ currentBeat' = 0
        /\ nextNoteTime' = currentTime + StartOffset
        /\ timerID' = w[1]
        /\ lostTimers' = w[2]
        /\ scheduleNoteCalls' = << >>

\* toggleMetronome while playing: the "Stop" branch of the updater.
ToggleStop ==
    /\ isPlaying
    /\ stops < MaxStops
    /\ isPlaying' = FALSE
    /\ LET w == WorkerOnMessage(<< timerID, lostTimers >>, "stop")
       IN  timerID' = w[1] /\ lostTimers' = w[2]
    /\ ctxOps' = IF audioContext = "running" THEN Append(ctxOps, "suspend") ELSE ctxOps
    /\ currentBeat' = 0
    /\ stops' = stops + 1
    /\ UNCHANGED << bpm, bpmRef, beatsPerBarRef, audioContext, currentTime,
                    nextNoteTime, scheduleNoteCalls, queuedNotes, lateNote >>
    /\ UNCHANGED otherThanMetronome

\* toggleMetronome while stopped: the "Start" branch.  A new context reports
\* the state "running" or "suspended", as the browser decides; a suspended
\* context makes the start step wait for resume().
ToggleStart ==
    /\ ~isPlaying
    /\ isPlaying' = TRUE
    /\ \E st \in (IF audioContext = "null" THEN {"running", "suspended"}
                  ELSE {audioContext}) :
          /\ audioContext' = st
          /\ IF st = "suspended"
             THEN /\ ctxOps' = Append(ctxOps, "resume")
                  /\ UNCHANGED << currentBeat, nextNoteTime, timerID, lostTimers,
                                  scheduleNoteCalls >>
             ELSE /\ StartStep(1)
                  /\ UNCHANGED ctxOps
    /\ UNCHANGED << bpm, bpmRef, beatsPerBarRef, currentTime, queuedNotes, stops,
                    lateNote >>
    /\ UNCHANGED otherThanMetronome

\* The audio context carries out its oldest request.  A suspend() freezes the
\* clock.  A resume() makes the context run and resolves every pending
\* resume() promise in the same task, so every start step that awaits one
\* continues now.
ContextSettle ==
    /\ ctxOps # << >>
    /\ IF Head(ctxOps) = "suspend"
       THEN /\ audioContext' = "suspended"
            /\ ctxOps' = Tail(ctxOps)
            /\ UNCHANGED << currentBeat, nextNoteTime, timerID, lostTimers,
                            scheduleNoteCalls >>
       ELSE /\ audioContext' = "running"
            /\ ctxOps' = << >>
            /\ StartStep(Len(ctxOps))
    /\ UNCHANGED << isPlaying, bpm, bpmRef, beatsPerBarRef, currentTime, queuedNotes,
                    stops, lateNote >>
    /\ UNCHANGED otherThanMetronome

\* worker.onmessage "tick": scheduler().  A note whose time is not ahead of
\* the clock sounds at once; the others wait on the audio graph.
scheduler ==
    /\ WorkerTicking
    /\ audioContext # "null"
    /\ LET r == SchedulerLoop(nextNoteTime, currentBeat, bpmRef, beatsPerBarRef,
                              currentTime, << >>)
       IN  /\ nextNoteTime' = r[1]
           /\ currentBeat' = r[2]
           /\ scheduleNoteCalls' = scheduleNoteCalls \o r[3]
           /\ queuedNotes' = queuedNotes \cup
                 { [time |-> r[3][i].time, run |-> stops] :
                     i \in { j \in 1..Len(r[3]) : r[3][j].time > currentTime } }
    /\ UNCHANGED << isPlaying, bpm, bpmRef, beatsPerBarRef, audioContext, ctxOps,
                    currentTime, timerID, lostTimers, stops, lateNote >>
    /\ UNCHANGED otherThanMetronome

\* The audio clock advances by one unit while the context runs; the queued
\* notes whose time has come sound.
AdvanceClock ==
    /\ audioContext = "running"
    /\ currentTime < MaxClock
    /\ currentTime' = currentTime + 1
    /\ LET sounding == { n \in queuedNotes : n.time <= currentTime + 1 }
       IN  /\ queuedNotes' = queuedNotes \ sounding
           /\ lateNote' = (lateNote \/ \E n \in sounding : n.run < stops)
    /\ UNCHANGED << isPlaying, bpm, bpmRef, beatsPerBarRef, audioContext, ctxOps,
                    nextNoteTime, currentBeat, timerID, lostTimers,
                    scheduleNoteCalls, stops >>
    /\ UNCHANGED otherThanMetronome

\* A tempo change that moves the beat in waiting to the new interval.
setBpmRetimes(b) ==
    /\ b # bpm
    /\ bpm' = b
    /\ bpmRef' = b
    /\ nextNoteTime' = nextNoteTime + SecondsPerBeat(b) - SecondsPerBeat(bpm)
    /\ UNCHANGED << isPlaying, beatsPerBarRef, audioContext, ctxOps, currentTime,
                    currentBeat, timerID, lostTimers,
                    scheduleNoteCalls, queuedNotes, stops, lateNote >>
    /\ UNCHANGED otherThanMetronome

\* setBpm(b) and the effect that copies bpm into bpmRef.
setBpm(b) ==
    /\ b # bpm
    /\ bpm' = b
    /\ bpmRef' = b
    /\ UNCHANGED << isPlaying, beatsPerBarRef, audioContext, ctxOps, currentTime,
                    nextNoteTime, currentBeat, timerID, lostTimers,
                    scheduleNoteCalls, queuedNotes, stops, lateNote >>
    /\ UNCHANGED otherThanMetronome

\* The time from a poll (or from the start) to the next poll, in 25 ms units:
\* the worker's interval is 25 ms, and the main thread can be late with the
\* message.
PollGaps == 0..scheduleAheadTime

\* worker.onmessage "tick" arriving `gap` after the last poll: the clock has
\* advanced by gap (it stands while the context is suspended), the queued
\* notes whose time has come have sounded, and scheduler() runs.
pollAfter(gap) ==
    /\ WorkerTicking
    /\ audioContext # "null"
    /\ gap > 0 => audioContext = "running"
    /\ currentTime + gap <= MaxClock
    /\ currentTime' = currentTime + gap
    /\ LET r == SchedulerLoop(nextNoteTime, currentBeat, bpmRef, beatsPerBarRef,
                              currentTime + gap, << >>)
           sounding == { n \in queuedNotes : n.time <= currentTime + gap }
       IN  /\ nextNoteTime' = r[1]
           /\ currentBeat' = r[2]
           /\ scheduleNoteCalls' = scheduleNoteCalls \o r[3]
           /\ queuedNotes' = (queuedNotes \ sounding) \cup
                 { [time |-> r[3][i].time, run |-> stops] :
                     i \in { j \in 1..Len(r[3]) : r[3][j].time > currentTime + gap } }
           /\ lateNote' = (lateNote \/ \E n \in sounding : n.run < stops)
    /\ UNCHANGED << isPlaying, bpm, bpmRef, beatsPerBarRef, audioContext, ctxOps,
                    timerID, lostTimers, stops >>
    /\ UNCHANGED otherThanMetronome

\* The hook is rendered with another beatsPerBar and the effect copies it
\* into beatsPerBarRef.
beatsPerBarEffect(beatsPerBar) ==
    /\ beatsPerBar # beatsPerBarRef
    /\ beatsPerBarRef' = beatsPerBar
    /\ UNCHANGED << isPlaying, bpm, bpmRef, audioContext, ctxOps, currentTime,
                    nextNoteTime, currentBeat, timerID, lostTimers,
                    scheduleNoteCalls, queuedNotes, stops, lateNote >>
    /\ UNCHANGED otherThanMetronome

InitMetronome ==
    /\ isPlaying = FALSE
    /\ bpm \in BpmValues
    /\ bpmRef = bpm
    /\ beatsPerBarRef \in BeatsPerBarValues
    /\ audioContext = "null"
    /\ ctxOps = << >>
    /\ currentTime = 0
    /\ nextNoteTime = 0
    /\ currentBeat = 0
    /\ timerID = FALSE
    /\ lostTimers = 0
    /\ scheduleNoteCalls = << >>
    /\ queuedNotes = {}
    /\ stops = 0
    /\ lateNote = FALSE

NextMetronome ==
    \/ ToggleStop
    \/ ToggleStart
    \/ ContextSettle
    \/ scheduler
    \/ AdvanceClock
    \/ \E b \in BpmValues : setBpm(b)

\* The metronome with the time that passes between two polls spelled out.
NextLookahead ==
    \/ ToggleStop
    \/ ToggleStart
    \/ ContextSettle
    \/ \E gap \in PollGaps : pollAfter(gap)
    \/ \E b \in BpmValues : setBpm(b)

\* The metronome of a song whose bar length changes as well.
NextBars ==
    \/ ToggleStop
    \/ ToggleStart
    \/ ContextSettle
    \/ scheduler
    \/ AdvanceClock
    \/ \E b \in BpmValues : setBpm(b)
    \/ \E beatsPerBar \in BeatsPerBarValues : beatsPerBarEffect(beatsPerBar)

(***************************************************************************)
(* ==================  useAudioMonitor and LiveMode  ===================== *)
(*                                                                         *)
(* Date.now() is counted in units of 100 ms, so the throttle               *)
(* `now - lastUpdateRef.current > 100` is a difference above one unit.     *)
(* Levels are decibels.  isMonitoring is never set after construction, so  *)
(* shouldMonitor is `!isScrolling`.  React runs the effects of a render    *)
(* after it; they are actions of their own here, enabled while the value   *)
(* they depend on differs from the one they last ran for.                  *)
(***************************************************************************)
\* if (now - lastUpdateRef.current > 100), in 100 ms units
ThrottleUnits == 1
\* Date.now() at mount: any value further than the throttle from lastUpdateRef = 0
LiveStart == 2
\* 20 * Math.log10(Math.max(rms, 1e-7)) for rms = 0
SilenceDb == 0 - 140
\* DEFAULT_SONG.audioTrigger.threshold
DefaultThresholdDb == 0 - 35
\* Levels a frame can measure: silence, a quiet room, a band playing.
DbLevels == {SilenceDb, 0 - 50, 0 - 20}

\* const shouldMonitor = isMonitoring && !isScrolling
shouldMonitor == ~isScrolling

\* The level analyze() computes: a suspended context delivers no samples.
MeasuredDb(db) == IF monitorContext = "running" THEN db ELSE SilenceDb

\* The trigger test of analyze(): << lastUpdateRef, triggered >> after a frame
\* that measured `db` at time `t`.
AnalyzeResult(db, t, last, thr, trig) ==
    IF t - last > ThrottleUnits
    THEN << t, trig \/ (db > thr) >>
    ELSE << last, trig >>

\* One frame of the analyze loop.
AnalyzeFrame(db) ==
    LET m == MeasuredDb(db)
        r == AnalyzeResult(m, liveNow, lastUpdateRef, thresholdRef, triggered)
        run == IF m > thresholdRef THEN (IF loudRun >= 2 THEN 2 ELSE loudRun + 1) ELSE 0
    IN  /\ lastUpdateRef' = r[1]
        /\ triggered' = r[2]
        /\ loudRun' = run
        /\ triggerRun' = IF r[2] /\ ~triggered THEN run ELSE triggerRun

\* requestAnimationFrame(analyze): the loop runs while analyserRef is set.
analyze(db) ==
    /\ analyserRef
    /\ AnalyzeFrame(db)
    /\ UNCHANGED << isScrolling, monitorEnabled, monitorContext, resumePending,
                    micPending, streamRef, lostStreams, analyserRef, monitorError,
                    thresholdRef, liveNow, sincePause, startedBy >>
    /\ UNCHANGED << containerScrollTop, containerMaxScroll, containerLimit, barHeight >>
    /\ UNCHANGED otherThanLive

\* stopMonitoring(): << streamRef, analyserRef, monitorContext >> afterwards.
stopMonitoring(ctx) ==
    << FALSE, FALSE, IF ctx = "running" THEN "suspended" ELSE ctx >>

\* The effect of useAudioMonitor on [enabled]: the cleanup of the previous run
\* (stopMonitoring), then startMonitoring() up to its first await, or
\* stopMonitoring() and setTriggered(false).
MonitorEffect ==
    /\ monitorEnabled # shouldMonitor
    /\ monitorEnabled' = shouldMonitor
    /\ LET st == stopMonitoring(monitorContext)
       IN  /\ streamRef' = st[1]
           /\ analyserRef' = st[2]
           /\ IF shouldMonitor
              THEN /\ resumePending + micPending < MaxPending
                   /\ \E c \in (IF st[3] = "null" THEN {"running", "suspended"}
                                ELSE {st[3]}) :
                        /\ monitorContext' = c
                        /\ IF c = "suspended"
                           THEN resumePending' = resumePending + 1 /\ UNCHANGED micPending
                           ELSE micPending' = micPending + 1 /\ UNCHANGED resumePending
                   /\ UNCHANGED triggered
              ELSE /\ monitorContext' = st[3]
                   /\ triggered' = FALSE
                   /\ UNCHANGED << resumePending, micPending >>
    /\ UNCHANGED << isScrolling, lostStreams, monitorError, thresholdRef, lastUpdateRef,
                    liveNow, sincePause, startedBy, loudRun, triggerRun >>
    /\ UNCHANGED << containerScrollTop, containerMaxScroll, containerLimit, barHeight >>
    /\ UNCHANGED otherThanLive

\* `await audioContextRef.current.resume()` returns: the context runs and every
\* call waiting for it goes on to getUserMedia.
ResumeDone ==
    /\ resumePending > 0
    /\ monitorContext' = "running"
    /\ micPending' = micPending + resumePending
    /\ resumePending' = 0
    /\ UNCHANGED << isScrolling, triggered, monitorEnabled, streamRef, lostStreams,
                    analyserRef, monitorError, thresholdRef, lastUpdateRef, liveNow,
                    sincePause, startedBy, loudRun, triggerRun >>
    /\ UNCHANGED << containerScrollTop, containerMaxScroll, containerLimit, barHeight >>
    /\ UNCHANGED otherThanLive

\* getUserMedia resolves: the rest of startMonitoring, whose analyze() call
\* analyses the first frame at once.
MicGranted(db) ==
    /\ micPending > 0
    /\ micPending' = micPending - 1
    /\ streamRef' = TRUE
    /\ lostStreams' = IF streamRef /\ lostStreams < MaxPending THEN lostStreams + 1
                    ELSE lostStreams
    /\ analyserRef' = TRUE
    /\ AnalyzeFrame(db)
    /\ monitorError' = FALSE
    /\ UNCHANGED << isScrolling, monitorEnabled, monitorContext, resumePending,
                    thresholdRef, liveNow, sincePause, startedBy >>
    /\ UNCHANGED << containerScrollTop, containerMaxScroll, containerLimit, barHeight >>
    /\ UNCHANGED otherThanLive

\* getUserMedia rejects: the catch block of startMonitoring.
MicDenied ==
    /\ micPending > 0
    /\ micPending' = micPending - 1
    /\ monitorError' = TRUE
    /\ UNCHANGED << isScrolling, triggered, monitorEnabled, monitorContext,
                    resumePending, streamRef, lostStreams, analyserRef, thresholdRef,
                    lastUpdateRef, liveNow, sincePause, startedBy, loudRun, triggerRun >>
    /\ UNCHANGED << containerScrollTop, containerMaxScroll, containerLimit, barHeight >>
    /\ UNCHANGED otherThanLive

\* The "Audio Trigger Effect" of LiveMode.
AudioTriggerEffect ==
    /\ triggered /\ ~isScrolling
    /\ isScrolling' = TRUE
    /\ startedBy' = "trigger"
    /\ UNCHANGED << triggered, monitorEnabled, monitorContext, resumePending,
                    micPending, streamRef, lostStreams, analyserRef, monitorError,
                    thresholdRef, lastUpdateRef, liveNow, sincePause, loudRun,
                    triggerRun >>
    /\ UNCHANGED << containerScrollTop, containerMaxScroll, containerLimit, barHeight >>
    /\ UNCHANGED otherThanLive

\* toggleScroll: setIsScrolling(prev => !prev)
toggleScroll ==
    /\ isScrolling' = ~isScrolling
    /\ startedBy' = IF isScrolling THEN startedBy ELSE "user"
    /\ sincePause' = IF isScrolling THEN "now" ELSE sincePause
    /\ UNCHANGED << triggered, monitorEnabled, monitorContext, resumePending,
                    micPending, streamRef, lostStreams, analyserRef, monitorError,
                    thresholdRef, lastUpdateRef, liveNow, loudRun, triggerRun >>
    /\ UNCHANGED << containerScrollTop, containerMaxScroll, containerLimit, barHeight >>
    /\ UNCHANGED otherThanLive

\* moveAmount of a frame of the scroll loop, in pixels: scrollspeed *
\* deltaTime, which is 0 in the first frame of a run.
MoveAmounts == {0, 1}

\* heightPercentage of updateProgressBar
HeightPercentage(top, ms) ==
    IF 100 - (top * 100) \div ms < 0 THEN 0 ELSE 100 - (top * 100) \div ms

\* updateProgressBar: the height of the bar for scrollTop = top
updateProgressBar(top) ==
    IF containerMaxScroll > 0 THEN HeightPercentage(top, containerMaxScroll) ELSE barHeight

\* One frame of the scroll loop, which runs while isScrolling is true.
scroll(moveAmount) ==
    /\ isScrolling
    /\ IF moveAmount > 0
       THEN /\ containerScrollTop' =
                   (IF containerScrollTop + moveAmount > containerLimit
                    THEN containerLimit ELSE containerScrollTop + moveAmount)
            /\ barHeight' = updateProgressBar(containerScrollTop')
            \* scrollTop + clientHeight >= scrollHeight - 1
            /\ isScrolling' = IF containerScrollTop' >= containerMaxScroll - 1
                              THEN FALSE ELSE isScrolling
       ELSE UNCHANGED << containerScrollTop, barHeight, isScrolling >>
    /\ UNCHANGED << triggered, monitorEnabled, monitorContext, resumePending,
                    micPending, streamRef, lostStreams, analyserRef, monitorError,
                    thresholdRef, lastUpdateRef, liveNow, sincePause, startedBy,
                    loudRun, triggerRun, containerMaxScroll, containerLimit >>
    /\ UNCHANGED otherThanLive

\* A reset that stops the click as well.
liveHandleResetStopsClick ==
    /\ containerScrollTop' = 0
    /\ isScrolling' = FALSE
    /\ barHeight' = updateProgressBar(0)
    /\ isPlaying' = FALSE
    /\ UNCHANGED << triggered, monitorEnabled, monitorContext, resumePending,
                    micPending, streamRef, lostStreams, analyserRef, monitorError,
                    thresholdRef, lastUpdateRef, liveNow, sincePause, startedBy,
                    loudRun, triggerRun, containerMaxScroll, containerLimit >>
    /\ UNCHANGED << bpm, bpmRef, beatsPerBarRef, audioContext, ctxOps, currentTime,
                    nextNoteTime, currentBeat, timerID, lostTimers, scheduleNoteCalls,
                    queuedNotes, stops, lateNote >>
    /\ UNCHANGED << promptVars, voiceVars, micError, lazyVars, drumVars, tempoVars, speedVars, importVars, gestureVars, writebackVars >>

\* handleReset of LiveMode (the reset button and the Home key):
\* scrollTop = 0; setIsScrolling(false); updateProgressBar().
liveHandleReset ==
    /\ containerScrollTop' = 0
    /\ isScrolling' = FALSE
    /\ barHeight' = updateProgressBar(0)
    /\ UNCHANGED << triggered, monitorEnabled, monitorContext, resumePending,
                    micPending, streamRef, lostStreams, analyserRef, monitorError,
                    thresholdRef, lastUpdateRef, liveNow, sincePause, startedBy,
                    loudRun, triggerRun, containerMaxScroll, containerLimit >>
    /\ UNCHANGED otherThanLive

\* The user scrolls the container by hand: the 'scroll' listener is
\* updateProgressBar.
containerOnScroll(pos) ==
    /\ pos # containerScrollTop
    /\ containerScrollTop' = pos
    /\ barHeight' = updateProgressBar(pos)
    /\ UNCHANGED << isScrolling, triggered, monitorEnabled, monitorContext,
                    resumePending, micPending, streamRef, lostStreams, analyserRef,
                    monitorError, thresholdRef, lastUpdateRef, liveNow, sincePause,
                    startedBy, loudRun, triggerRun, containerMaxScroll,
                    containerLimit >>
    /\ UNCHANGED otherThanLive

\* Date.now() moves on by 100 ms.
LiveTick ==
    /\ liveNow < MaxLiveNow
    /\ liveNow' = liveNow + 1
    /\ sincePause' = IF sincePause = "now" THEN "earlier" ELSE sincePause
    /\ UNCHANGED << isScrolling, triggered, monitorEnabled, monitorContext,
                    resumePending, micPending, streamRef, lostStreams, analyserRef,
                    monitorError, thresholdRef, lastUpdateRef, startedBy, loudRun,
                    triggerRun >>
    /\ UNCHANGED << containerScrollTop, containerMaxScroll, containerLimit, barHeight >>
    /\ UNCHANGED otherThanLive

\* LiveMode after its first render, before the monitor effect has run.
InitLive ==
    /\ isScrolling = FALSE
    /\ triggered = FALSE
    /\ monitorEnabled = FALSE
    /\ monitorContext = "null"
    /\ resumePending = 0
    /\ micPending = 0
    /\ streamRef = FALSE
    /\ lostStreams = 0
    /\ analyserRef = FALSE
    /\ monitorError = FALSE
    /\ thresholdRef = DefaultThresholdDb
    /\ lastUpdateRef = 0
    /\ liveNow = LiveStart
    /\ sincePause = "never"
    /\ startedBy = "none"
    /\ loudRun = 0
    /\ triggerRun = 0
    /\ containerMaxScroll \in 0..MaxScroll
    /\ containerLimit \in (IF containerMaxScroll > 0
                            THEN {containerMaxScroll - 1, containerMaxScroll} ELSE {0})
    /\ containerScrollTop = 0
    /\ barHeight = 100

\* The song's text fits on the screen.
ContentFits == containerMaxScroll = 0 /\ containerLimit = 0

NextLive ==
    \/ \E db \in DbLevels : analyze(db)
    \/ MonitorEffect
    \/ ResumeDone
    \/ \E db \in DbLevels : MicGranted(db)
    \/ MicDenied
    \/ AudioTriggerEffect
    \/ toggleScroll
    \/ LiveTick

\* LiveMode's scroll loop and the monitor's start and stop, without the
\* analysed frames.
NextLiveScroll ==
    \/ \E moveAmount \in MoveAmounts : scroll(moveAmount)
    \/ \E pos \in 0..containerLimit : containerOnScroll(pos)
    \/ toggleScroll
    \/ MonitorEffect
    \/ ResumeDone
    \/ \E db \in DbLevels : MicGranted(db)
    \/ MicDenied

(***************************************************************************)
(* =====================  Prompter: play state and trigger  ============== *)
(*                                                                         *)
(* Time is counted in units of 500 ms: the cooldowns of 1000, 1500 and     *)
(* 2000 ms are 2, 3 and 4 units, and audioCooldownRef holds what is left   *)
(* of the cooldown, so `now < audioCooldownRef.current` is                 *)
(* audioCooldownRef > 0.  The scroll position is counted in steps of the   *)
(* scroller, progress and progressRef as numerators of a fraction of       *)
(* maxScroll.  scrollHeight and clientHeight are rounded to whole pixels   *)
(* and scrollTop is not, so the largest scrollTop the scroller takes       *)
(* (scrollLimit) can lie below maxScroll, by up to one unit.               *)
(*                                                                         *)
(* React commits a state update made in a click handler, with the effects  *)
(* that copy state into the refs, before the handler's task ends.  An      *)
(* update made from an animation frame, a promise or a recognition event   *)
(* is committed in a later task (Commit); until then the refs and the      *)
(* animate closure hold the old values.                                    *)
(***************************************************************************)
\* const REQUIRED_CONFIDENCE_FRAMES = 10
REQUIRED_CONFIDENCE_FRAMES == 10
\* audioCooldownRef.current = Date.now() + 1000 (handleReset)
ResetCooldown == 2
\* audioCooldownRef.current = Date.now() + 1500 (togglePlay)
PauseCooldown == 3
\* audioCooldownRef.current = Date.now() + 2000 (handleVoiceCommand)
VoicePauseCooldown == 4
\* useState(song.audioThreshold ?? 20)
DefaultAudioThreshold == 20
\* Values of Math.min(100, rms * 350): a quiet room and a band playing.
Volumes == {5, 60}
\* The commands handleVoiceCommand tells apart that change the play state.
VoiceCommands == {"play", "pause", "reset"}

\* useState scrollSpeed, in halves: song.defaultScrollSpeed ?? 2.0, and the
\* range and the step of the voice commands "schneller" and "langsamer".
DefaultScrollSpeed == 4
MaxScrollSpeed == 30
MinScrollSpeed == 1
SpeedStep == 1

\* The keywords of handleVoiceCommand, group by group in the order of its
\* if-chain: play, pause, reset, speed up, slow down, exit.
PlayWords == {"start", "los", "play", "weiter"}
PauseWords == {"stopp", "stop", "halt", "pause", "warte"}
ResetWords == {"anfang", "zurück", "reset"}
FasterWords == {"schneller"}
SlowerWords == {"langsamer"}
ExitWords == {"ende", "schließen", "raus"}
KeywordGroups ==
    << PlayWords, PauseWords, ResetWords, FasterWords, SlowerWords, ExitWords >>

\* The words of the utterances: the keywords, a word without a keyword and
\* two words that hold keywords as substrings.
Vocabulary ==
    PlayWords \cup PauseWords \cup ResetWords \cup FasterWords \cup SlowerWords
        \cup ExitWords \cup {"hallo", "pausenlos", "wochenende"}

\* The keywords that are substrings of a word.
KeywordsIn(word) ==
    CASE word = "stopp" -> {"stopp", "stop"}
      [] word = "pausenlos" -> {"pause", "los"}
      [] word = "wochenende" -> {"ende"}
      [] word = "hallo" -> {}
      [] OTHER -> {word}

\* The sets of at most n words.
RECURSIVE WordSets(_)
WordSets(n) ==
    IF n = 0 THEN {{}}
    ELSE {t \cup {word} : t \in WordSets(n - 1), word \in Vocabulary} \cup {{}}

\* A transcript, as the set of its words.
Utterances == WordSets(MaxWords)

\* text.includes(kw)
Includes(text, kw) == \E word \in text : kw \in KeywordsIn(word)

\* The if-chain of handleVoiceCommand with the pause keywords tested first.
CommandOfPauseFirst(text) ==
    IF \E kw \in PauseWords : Includes(text, kw) THEN "pause"
    ELSE IF \E kw \in PlayWords : Includes(text, kw) THEN "play"
    ELSE IF \E kw \in ResetWords : Includes(text, kw) THEN "reset"
    ELSE IF \E kw \in FasterWords : Includes(text, kw) THEN "faster"
    ELSE IF \E kw \in SlowerWords : Includes(text, kw) THEN "slower"
    ELSE IF \E kw \in ExitWords : Includes(text, kw) THEN "exit"
    ELSE "none"

\* The if-chain of handleVoiceCommand: the branch taken for an utterance.
CommandOf(text) ==
    IF \E kw \in PlayWords : Includes(text, kw) THEN "play"
    ELSE IF \E kw \in PauseWords : Includes(text, kw) THEN "pause"
    ELSE IF \E kw \in ResetWords : Includes(text, kw) THEN "reset"
    ELSE IF \E kw \in FasterWords : Includes(text, kw) THEN "faster"
    ELSE IF \E kw \in SlowerWords : Includes(text, kw) THEN "slower"
    ELSE IF \E kw \in ExitWords : Includes(text, kw) THEN "exit"
    ELSE "none"

\* const isAtEnd = progressRef.current > 0.99
IsAtEnd(p) == p * 100 > 99 * maxScroll

\* Math.min(scrollTop / maxScroll, 1), as a numerator over maxScroll
ProgressOf(top) == IF top > maxScroll THEN maxScroll ELSE top

\* The largest scrollTop of a scroller whose maxScroll is `ms`.
ScrollLimits(ms) == IF ms > 0 THEN {ms - 1, ms} ELSE {0}

\* scrollTop after `scrollTop += pixels`: the scroller keeps it in its range.
ScrolledBy(top, pixels) ==
    IF top + pixels > scrollLimit THEN scrollLimit
    ELSE IF top + pixels < 0 THEN 0 ELSE top + pixels

\* pixelsToScroll of a frame: none (the first frame of a run, or a timestamp
\* equal to the last one) or a step.
ScrollSteps == {0, 1}

\* pixelsToScroll where a frame's timestamp can also be earlier than the last
\* one.
AnomalousSteps == {0 - 1, 0, 1}

\* The condition of the trigger branch of analyzeAudio.
ArmedIgnoringPlayState(ase, ps, cooling, atEnd, touching) ==
    ase /\ ~cooling /\ ~atEnd /\ ~touching
ArmedIgnoringCooldown(ase, ps, cooling, atEnd, touching) ==
    ase /\ ps # "PLAYING" /\ ~atEnd /\ ~touching
IsArmed(ase, ps, cooling, atEnd, touching) ==
    ase /\ ps # "PLAYING" /\ ~cooling /\ ~atEnd /\ ~touching

\* The counter after a frame of the trigger branch.
NextConfidence(c, loud) ==
    IF loud THEN c + 1 ELSE (IF c - 1 > 0 THEN c - 1 ELSE 0)

\* if (triggerConfidenceCounterRef.current >= REQUIRED_CONFIDENCE_FRAMES)
TriggerReachedEarly(c) == c >= REQUIRED_CONFIDENCE_FRAMES - 1
TriggerReached(c) == c >= REQUIRED_CONFIDENCE_FRAMES

\* The monitor as analyzeAudio sees it now.
Armed ==
    IsArmed(autoStartEnabledRef, playStateRef, audioCooldownRef > 0,
            IsAtEnd(progressRef), isScrollingRef)

\* Some state update is not committed yet.
Dirty ==
    \/ playStateRef # playState
    \/ autoStartEnabledRef # autoStartEnabled
    \/ progressRef # progress

\* A frame can run: at most MaxStaleFrames of them before a pending commit.
FrameAllowed == ~Dirty \/ staleFrames < MaxStaleFrames

\* The commit of a render with the state << ps, ase, pr >>: the effects that
\* copy state into the refs, and the auto-start effect when autoStartEnabled
\* changed (cleanupAudio when switched off, initAudio up to its await when
\* switched on).
CommitEffects(ps, ase, pr) ==
    /\ playStateRef' = ps
    /\ autoStartEnabledRef' = ase
    /\ progressRef' = pr
    /\ staleFrames' = 0
    /\ IF ase = autoStartEnabledRef
       THEN UNCHANGED << promptAnalyser, initPending, micError >>
       ELSE IF ase
            THEN /\ initPending' = initPending + 1
                 /\ micError' = FALSE
                 /\ UNCHANGED promptAnalyser
            ELSE promptAnalyser' = FALSE /\ UNCHANGED << initPending, micError >>

\* The body of analyzeAudio for a frame of volume `v`.
AnalyzeAudioFrame(v) ==
    LET c == NextConfidence(triggerConfidenceCounterRef, v > audioThresholdRef)
    IN  /\ staleFrames' = IF Dirty THEN staleFrames + 1 ELSE 0
        /\ IF Armed
           THEN IF TriggerReached(c)
                THEN /\ playState' = "PLAYING"
                     /\ triggerConfidenceCounterRef' = 0
                     /\ autoTriggers' = 1 - autoTriggers
                     /\ triggeredPlay' = (playState = "PLAYING" => triggeredPlay)
                ELSE /\ triggerConfidenceCounterRef' = c
                     /\ UNCHANGED << playState, autoTriggers, triggeredPlay >>
           ELSE /\ triggerConfidenceCounterRef' = 0
                /\ UNCHANGED << playState, autoTriggers, triggeredPlay >>

\* requestAnimationFrame(analyzeAudio): the loop runs while the analyser is set.
analyzeAudio(v) ==
    /\ ~exited
    /\ promptAnalyser
    /\ FrameAllowed
    /\ UNCHANGED << playStateRef, autoStartEnabled, autoStartEnabledRef,
                    audioThresholdRef, progress, progressRef, scrollTop, isScrollingRef,
                    settleTimers, audioCooldownRef, promptAnalyser, initPending,
                    pauseCooldown >>
    /\ AnalyzeAudioFrame(v)
    /\ UNCHANGED << micStreamOpen >>
    /\ UNCHANGED << maxScroll, scrollLimit >>
    /\ UNCHANGED << scrollSpeed, exited, heard >>
    /\ UNCHANGED << micError >>
    /\ UNCHANGED otherThanPrompter

\* getUserMedia resolves in initAudio: the analyser is set up and analyzeAudio()
\* analyses the first frame at once.  The stream is held by the source node
\* only; cleanupAudio disconnects that node and closes the context, and
\* nothing stops the stream's tracks.
initAudioGranted(v) ==
    /\ ~exited
    /\ initPending > 0
    /\ FrameAllowed
    /\ initPending' = initPending - 1
    /\ promptAnalyser' = TRUE
    /\ micStreamOpen' = TRUE
    /\ AnalyzeAudioFrame(v)
    /\ UNCHANGED << playStateRef, autoStartEnabled, autoStartEnabledRef,
                    audioThresholdRef, progress, progressRef, scrollTop, isScrollingRef,
                    settleTimers, audioCooldownRef, pauseCooldown >>
    /\ UNCHANGED << maxScroll, scrollLimit >>
    /\ UNCHANGED << scrollSpeed, exited, heard >>
    /\ UNCHANGED << micError >>
    /\ UNCHANGED otherThanPrompter

\* A catch block that logs the error and does nothing else.
initAudioDeniedSilently ==
    /\ ~exited
    /\ initPending > 0
    /\ initPending' = initPending - 1
    /\ UNCHANGED << playState, playStateRef, autoStartEnabled, autoStartEnabledRef,
                    audioThresholdRef, progress, progressRef, scrollTop, isScrollingRef,
                    settleTimers, audioCooldownRef, triggerConfidenceCounterRef,
                    promptAnalyser, staleFrames, autoTriggers, triggeredPlay,
                    pauseCooldown >>
    /\ UNCHANGED << micStreamOpen >>
    /\ UNCHANGED << maxScroll, scrollLimit >>
    /\ UNCHANGED << scrollSpeed, exited, heard >>
    /\ UNCHANGED << micError >>
    /\ UNCHANGED otherThanPrompter

\* getUserMedia rejects in initAudio: the catch block.
initAudioDenied ==
    /\ ~exited
    /\ initPending > 0
    /\ initPending' = initPending - 1
    /\ autoStartEnabled' = FALSE
    /\ UNCHANGED << playState, playStateRef, autoStartEnabledRef, audioThresholdRef,
                    progress, progressRef, scrollTop, isScrollingRef, settleTimers,
                    audioCooldownRef, triggerConfidenceCounterRef, promptAnalyser,
                    staleFrames, autoTriggers, triggeredPlay, pauseCooldown >>
    /\ UNCHANGED << micStreamOpen >>
    /\ UNCHANGED << maxScroll, scrollLimit >>
    /\ UNCHANGED << scrollSpeed, exited, heard >>
    /\ micError' = TRUE
    /\ UNCHANGED otherThanPrompter

\* React commits the pending state updates.
Commit ==
    /\ ~exited
    /\ Dirty
    /\ CommitEffects(playState, autoStartEnabled, progress)
    /\ UNCHANGED << playState, autoStartEnabled, audioThresholdRef, progress, scrollTop,
                    isScrollingRef, settleTimers, audioCooldownRef, triggerConfidenceCounterRef, autoTriggers, triggeredPlay,
                    pauseCooldown >>
    /\ UNCHANGED << micStreamOpen >>
    /\ UNCHANGED << maxScroll, scrollLimit >>
    /\ UNCHANGED << scrollSpeed, exited, heard >>
    /\ UNCHANGED otherThanPrompter

\* The play button: togglePlay, committed within the click.  Its updater gets
\* the latest play state, committed or not.
togglePlay ==
    /\ ~exited
    /\ IF playState = "PLAYING"
       THEN /\ audioCooldownRef' = PauseCooldown
            /\ triggerConfidenceCounterRef' = 0
            /\ playState' = "PAUSED"
            /\ pauseCooldown' = PauseCooldown
            /\ triggeredPlay' = FALSE
       ELSE /\ playState' = "PLAYING"
            /\ triggeredPlay' = FALSE
            /\ UNCHANGED << audioCooldownRef, triggerConfidenceCounterRef, pauseCooldown >>
    /\ CommitEffects(playState', autoStartEnabled, progress)
    /\ UNCHANGED << autoStartEnabled, audioThresholdRef, progress, scrollTop,
                    isScrollingRef, settleTimers, autoTriggers >>
    /\ UNCHANGED << micStreamOpen >>
    /\ UNCHANGED << maxScroll, scrollLimit >>
    /\ UNCHANGED << scrollSpeed, exited, heard >>
    /\ UNCHANGED otherThanPrompter

\* handleReset, without the commit.
ResetBody ==
    /\ audioCooldownRef' = ResetCooldown
    /\ playState' = "STOPPED"
    /\ triggerConfidenceCounterRef' = 0
    /\ scrollTop' = 0
    /\ progress' = 0
    /\ triggeredPlay' = FALSE

\* The reset button: handleReset, committed within the click.
handleReset ==
    /\ ~exited
    /\ ResetBody
    /\ CommitEffects("STOPPED", autoStartEnabled, 0)
    /\ UNCHANGED << autoStartEnabled, audioThresholdRef, isScrollingRef, settleTimers,
                    autoTriggers, pauseCooldown >>
    /\ UNCHANGED << micStreamOpen >>
    /\ UNCHANGED << maxScroll, scrollLimit >>
    /\ UNCHANGED << scrollSpeed, exited, heard >>
    /\ UNCHANGED otherThanPrompter

\* recognition.onresult: handleVoiceCommand for an utterance that holds a
\* play, pause or reset keyword.  The update is committed later.
VoiceCommandBody(cmd) ==
    /\ ~exited
    /\ CASE cmd = "play" ->
              /\ playState' = "PLAYING"
              /\ triggeredPlay' = (playState = "PLAYING" /\ triggeredPlay)
              /\ UNCHANGED << audioCooldownRef, triggerConfidenceCounterRef, scrollTop,
                              progress, scrollSpeed, exited >>
         [] cmd = "pause" ->
              /\ audioCooldownRef' = VoicePauseCooldown
              /\ triggerConfidenceCounterRef' = 0
              /\ playState' = "PAUSED"
              /\ triggeredPlay' = FALSE
              /\ UNCHANGED << scrollTop, progress, scrollSpeed, exited >>
         [] cmd = "reset" -> ResetBody /\ UNCHANGED << scrollSpeed, exited >>
         [] cmd = "faster" ->
              /\ scrollSpeed' = (IF scrollSpeed + SpeedStep > MaxScrollSpeed
                                 THEN MaxScrollSpeed ELSE scrollSpeed + SpeedStep)
              /\ UNCHANGED << playState, triggeredPlay, audioCooldownRef,
                              triggerConfidenceCounterRef, scrollTop, progress, exited >>
         [] cmd = "slower" ->
              /\ scrollSpeed' = (IF scrollSpeed - SpeedStep < MinScrollSpeed
                                 THEN MinScrollSpeed ELSE scrollSpeed - SpeedStep)
              /\ UNCHANGED << playState, triggeredPlay, audioCooldownRef,
                              triggerConfidenceCounterRef, scrollTop, progress, exited >>
         [] cmd = "exit" ->
              /\ exited' = TRUE
              /\ UNCHANGED << playState, triggeredPlay, audioCooldownRef,
                              triggerConfidenceCounterRef, scrollTop, progress,
                              scrollSpeed >>
         [] cmd = "none" ->
              UNCHANGED << playState, triggeredPlay, audioCooldownRef,
                           triggerConfidenceCounterRef, scrollTop, progress,
                           scrollSpeed, exited >>
    /\ UNCHANGED << playStateRef, autoStartEnabled, autoStartEnabledRef,
                    audioThresholdRef, progressRef, isScrollingRef, settleTimers, promptAnalyser, initPending, staleFrames, autoTriggers,
                    pauseCooldown >>
    /\ UNCHANGED << micStreamOpen >>
    /\ UNCHANGED << maxScroll, scrollLimit >>
    /\ UNCHANGED << micError >>
    /\ UNCHANGED otherThanPrompter

\* handleVoiceCommand for an utterance in which the if-chain finds `cmd`.
handleVoiceCommand(cmd) ==
    /\ VoiceCommandBody(cmd)
    /\ UNCHANGED heard

\* recognition.onresult: the transcript, trimmed and in lower case, goes to
\* handleVoiceCommand.
onresult(text) ==
    /\ VoiceCommandBody(CommandOf(text))
    /\ heard' = ( /\ \E kw \in PlayWords : Includes(text, kw)
                  /\ \E kw \in PauseWords : Includes(text, kw) )

\* The auto-start button: setAutoStartEnabled(!autoStartEnabled), with the
\* autoStartEnabled of the last committed render; committed within the click.
toggleAutoStart ==
    /\ ~exited
    /\ autoStartEnabledRef \/ initPending < MaxInits
    /\ autoStartEnabled' = ~autoStartEnabledRef
    /\ CommitEffects(playState, ~autoStartEnabledRef, progress)
    /\ UNCHANGED << playState, audioThresholdRef, progress, scrollTop, isScrollingRef,
                    settleTimers, audioCooldownRef, triggerConfidenceCounterRef,
                    autoTriggers, triggeredPlay, pauseCooldown >>
    /\ UNCHANGED << micStreamOpen >>
    /\ UNCHANGED << maxScroll, scrollLimit >>
    /\ UNCHANGED << scrollSpeed, exited, heard >>
    /\ UNCHANGED otherThanPrompter

\* One frame of the animate loop, which runs while the committed play state is
\* PLAYING: the position moves by `d` = pixelsToScroll, which has the sign of
\* deltaTime, unless the user is touching.
animate(d) ==
    /\ ~exited
    /\ playStateRef = "PLAYING"
    /\ FrameAllowed
    /\ staleFrames' = IF Dirty THEN staleFrames + 1 ELSE 0
    /\ IF ~isScrollingRef
       THEN /\ scrollTop' = ScrolledBy(scrollTop, d)
            /\ IF maxScroll > 0
               THEN /\ progress' = ProgressOf(scrollTop')
                    /\ playState' = IF scrollTop' >= maxScroll THEN "PAUSED" ELSE playState
                    /\ triggeredPlay' = (scrollTop' < maxScroll /\ triggeredPlay)
               ELSE UNCHANGED << progress, playState, triggeredPlay >>
       ELSE UNCHANGED << scrollTop, progress, playState, triggeredPlay >>
    /\ UNCHANGED << playStateRef, autoStartEnabled, autoStartEnabledRef,
                    audioThresholdRef, progressRef, isScrollingRef, settleTimers,
                    audioCooldownRef, triggerConfidenceCounterRef, promptAnalyser,
                    initPending, autoTriggers, pauseCooldown >>
    /\ UNCHANGED << micStreamOpen >>
    /\ UNCHANGED << maxScroll, scrollLimit >>
    /\ UNCHANGED << scrollSpeed, exited, heard >>
    /\ UNCHANGED << micError >>
    /\ UNCHANGED otherThanPrompter

\* onTouchStart / onTouchMove
handleScrollBegin ==
    /\ ~exited
    /\ ~isScrollingRef
    /\ isScrollingRef' = TRUE
    /\ UNCHANGED << playState, playStateRef, autoStartEnabled, autoStartEnabledRef,
                    audioThresholdRef, progress, progressRef, scrollTop, settleTimers,
                    audioCooldownRef, triggerConfidenceCounterRef, promptAnalyser,
                    initPending, staleFrames, autoTriggers, triggeredPlay,
                    pauseCooldown >>
    /\ UNCHANGED << micStreamOpen >>
    /\ UNCHANGED << maxScroll, scrollLimit >>
    /\ UNCHANGED << scrollSpeed, exited, heard >>
    /\ UNCHANGED << micError >>
    /\ UNCHANGED otherThanPrompter

\* The user drags the text to position `pos`: the scroller's onScroll handler.
onScroll(pos) ==
    /\ ~exited
    /\ isScrollingRef
    /\ pos # scrollTop
    /\ scrollTop' = pos
    /\ progress' = IF maxScroll > 0 THEN ProgressOf(pos) ELSE progress
    /\ UNCHANGED << playState, playStateRef, autoStartEnabled, autoStartEnabledRef,
                    audioThresholdRef, progressRef, isScrollingRef, settleTimers,
                    audioCooldownRef, triggerConfidenceCounterRef, promptAnalyser,
                    initPending, staleFrames, autoTriggers, triggeredPlay,
                    pauseCooldown >>
    /\ UNCHANGED << micStreamOpen >>
    /\ UNCHANGED << maxScroll, scrollLimit >>
    /\ UNCHANGED << scrollSpeed, exited, heard >>
    /\ UNCHANGED << micError >>
    /\ UNCHANGED otherThanPrompter

\* onTouchEnd
handleScrollEnd ==
    /\ ~exited
    /\ isScrollingRef
    /\ settleTimers < MaxTimers
    /\ settleTimers' = settleTimers + 1
    /\ UNCHANGED << playState, playStateRef, autoStartEnabled, autoStartEnabledRef,
                    audioThresholdRef, progress, progressRef, scrollTop, isScrollingRef,
                    audioCooldownRef, triggerConfidenceCounterRef, promptAnalyser,
                    initPending, staleFrames, autoTriggers, triggeredPlay,
                    pauseCooldown >>
    /\ UNCHANGED << micStreamOpen >>
    /\ UNCHANGED << maxScroll, scrollLimit >>
    /\ UNCHANGED << scrollSpeed, exited, heard >>
    /\ UNCHANGED << micError >>
    /\ UNCHANGED otherThanPrompter

\* The 200 ms timer of handleScrollEnd fires.
ScrollEndTimeout ==
    /\ ~exited
    /\ settleTimers > 0
    /\ settleTimers' = settleTimers - 1
    /\ isScrollingRef' = FALSE
    /\ UNCHANGED << playState, playStateRef, autoStartEnabled, autoStartEnabledRef,
                    audioThresholdRef, progress, progressRef, scrollTop,
                    audioCooldownRef, triggerConfidenceCounterRef, promptAnalyser,
                    initPending, staleFrames, autoTriggers, triggeredPlay,
                    pauseCooldown >>
    /\ UNCHANGED << micStreamOpen >>
    /\ UNCHANGED << maxScroll, scrollLimit >>
    /\ UNCHANGED << scrollSpeed, exited, heard >>
    /\ UNCHANGED << micError >>
    /\ UNCHANGED otherThanPrompter

\* Date.now() moves on by 500 ms while a cooldown lasts.
Tick ==
    /\ audioCooldownRef > 0 \/ pauseCooldown > 0
    /\ audioCooldownRef' = (IF audioCooldownRef > 0 THEN audioCooldownRef - 1 ELSE 0)
    /\ pauseCooldown' = (IF pauseCooldown > 0 THEN pauseCooldown - 1 ELSE pauseCooldown)
    /\ UNCHANGED << playState, playStateRef, autoStartEnabled, autoStartEnabledRef,
                    audioThresholdRef, progress, progressRef, scrollTop, isScrollingRef,
                    settleTimers, triggerConfidenceCounterRef,
                    promptAnalyser, initPending, staleFrames, autoTriggers,
                    triggeredPlay >>
    /\ UNCHANGED << micStreamOpen >>
    /\ UNCHANGED << maxScroll, scrollLimit >>
    /\ UNCHANGED << scrollSpeed, exited, heard >>
    /\ UNCHANGED << micError >>
    /\ UNCHANGED otherThanPrompter

\* The Prompter after its first render and its mount effects, for a song with
\* auto-start on or off and a text of some height.
InitPrompter ==
    /\ maxScroll \in 0..MaxScroll
    /\ scrollLimit \in ScrollLimits(maxScroll)
    /\ playState = "STOPPED"
    /\ playStateRef = "STOPPED"
    /\ autoStartEnabled \in BOOLEAN
    /\ autoStartEnabledRef = autoStartEnabled
    /\ audioThresholdRef = DefaultAudioThreshold
    /\ progress = 0
    /\ progressRef = 0
    /\ scrollTop = 0
    /\ isScrollingRef = FALSE
    /\ settleTimers = 0
    /\ audioCooldownRef = 0
    /\ triggerConfidenceCounterRef = 0
    /\ promptAnalyser = FALSE
    /\ initPending = IF autoStartEnabled THEN 1 ELSE 0
    /\ staleFrames = 0
    /\ autoTriggers = 0
    /\ triggeredPlay = FALSE
    /\ pauseCooldown = 0 - 1
    /\ micStreamOpen = FALSE
    /\ scrollSpeed = DefaultScrollSpeed
    /\ exited = FALSE
    /\ heard = FALSE

\* The text overflows the screen by TriggerMaxScroll and scrollTop reaches
\* maxScroll.
TriggerLayout == maxScroll = TriggerMaxScroll /\ scrollLimit = maxScroll

NextPrompter ==
    \/ \E v \in Volumes : analyzeAudio(v)
    \/ \E v \in Volumes : initAudioGranted(v)
    \/ initAudioDenied
    \/ Commit
    \/ togglePlay
    \/ handleReset
    \/ \E cmd \in VoiceCommands : handleVoiceCommand(cmd)
    \/ toggleAutoStart
    \/ \E d \in ScrollSteps : animate(d)
    \/ handleScrollBegin
    \/ \E pos \in 0..scrollLimit : onScroll(pos)
    \/ handleScrollEnd
    \/ ScrollEndTimeout
    \/ Tick

(***************************************************************************)
(* =====================  Prompter: voice control  ======================= *)
(*                                                                         *)
(* Each SpeechRecognition object the voice effect creates is a session     *)
(* with a number.  A session is "running" from start() on, "stopping" from *)
(* stop() or an error until its end event is delivered, and "ended" after  *)
(* that unless its onend handler starts it again.                          *)
(***************************************************************************)
\* recognition.stop() on recognitionRef.current: the session will end; its end
\* event comes later.
StopSession(ss, ref) ==
    IF ref # 0 /\ ss[ref] \in {"starting", "running"}
    THEN [ss EXCEPT ![ref] = "stopping"] ELSE ss

\* An onend handler that leaves an ended session as it is.
OnendNeverRestarts(ref, online) == FALSE

\* if (voiceControlEnabled && recognitionRef.current && navigator.onLine), in
\* the onend handler of a session: voiceControlEnabled is the one of the render
\* the handler was made in, which is true.
OnendRestarts(ref, online) == ref # 0 /\ online

\* The voice effect for a render with voiceControlEnabled = `enabled`: the
\* cleanup of the last run and the body.  Both stop the session in
\* recognitionRef and clear it.
VoiceEffect(enabled) ==
    /\ voiceCommitted' = enabled
    /\ IF ~enabled
       THEN /\ sessions' = StopSession(sessions, recognitionRef)
            /\ recognitionRef' = 0
            /\ voiceControlEnabled' = enabled
       ELSE IF ~onLine
            THEN /\ sessions' = StopSession(sessions, recognitionRef)
                 /\ recognitionRef' = 0
                 /\ voiceControlEnabled' = FALSE
            ELSE /\ Len(sessions) < MaxSessions
                 /\ sessions' = Append(StopSession(sessions, recognitionRef), "starting")
                 /\ recognitionRef' = Len(sessions) + 1
                 /\ voiceControlEnabled' = enabled

\* The voice button: !isOffline && setVoiceControlEnabled(!voiceControlEnabled),
\* committed within the click.
toggleVoice ==
    /\ ~isOffline
    /\ VoiceEffect(~voiceCommitted)
    /\ denied' = (voiceCommitted /\ denied)
    /\ UNCHANGED << isOffline, onLine, restarted, revived >>
    /\ UNCHANGED << micError >>
    /\ UNCHANGED otherThanVoice

\* React commits a setVoiceControlEnabled made outside a click.
CommitVoice ==
    /\ voiceCommitted # voiceControlEnabled
    /\ VoiceEffect(voiceControlEnabled)
    /\ UNCHANGED << isOffline, onLine, restarted, revived, denied >>
    /\ UNCHANGED << micError >>
    /\ UNCHANGED otherThanVoice

\* The browser has started session `s`: it is listening.  (The Prompter sets
\* no onstart handler.)
onstart(s) ==
    /\ sessions[s] = "starting"
    /\ sessions' = [sessions EXCEPT ![s] = "running"]
    /\ UNCHANGED << voiceControlEnabled, voiceCommitted, isOffline, onLine,
                    recognitionRef, restarted, revived, denied >>
    /\ UNCHANGED << micError >>
    /\ UNCHANGED otherThanVoice

\* The end event of session `s` is delivered: recognition.onend.  A running
\* session can end by itself.
onend(s) ==
    /\ sessions[s] \in {"running", "stopping"}
    /\ IF OnendRestarts(recognitionRef, onLine)
       THEN /\ sessions' = [sessions EXCEPT ![s] = "starting"]
            /\ restarted' = IF recognitionRef = s THEN restarted ELSE restarted \cup {s}
            /\ revived' = IF sessions[s] = "running" THEN s ELSE revived
       ELSE /\ sessions' = [sessions EXCEPT ![s] = "ended"]
            /\ UNCHANGED << restarted, revived >>
    /\ UNCHANGED << voiceControlEnabled, voiceCommitted, isOffline, onLine,
                    recognitionRef, denied >>
    /\ UNCHANGED << micError >>
    /\ UNCHANGED otherThanVoice

\* The errors of a session: two that the handler acts on and one of those it
\* ignores.
RecognitionErrors == {"network", "not-allowed", "no-speech"}

\* recognition.onerror of session `s`; the session ends after it.  "no-speech"
\* comes from a session that has been listening.
onerror(s, error) ==
    /\ sessions[s] \in (IF error = "no-speech" THEN {"running"} ELSE {"starting", "running"})
    /\ sessions' = [sessions EXCEPT ![s] = "stopping"]
    /\ micError' = (micError \/ error = "not-allowed")
    /\ isOffline' = (isOffline \/ error = "network")
    /\ voiceControlEnabled' =
           IF error \in {"not-allowed", "network"} THEN FALSE ELSE voiceControlEnabled
    /\ denied' = (denied \/ error = "not-allowed")
    /\ UNCHANGED << voiceCommitted, onLine, recognitionRef, restarted, revived >>
    /\ UNCHANGED otherThanVoice

\* window.ononline
handleOnline ==
    /\ ~onLine
    /\ onLine' = TRUE
    /\ isOffline' = FALSE
    /\ UNCHANGED << voiceControlEnabled, voiceCommitted, recognitionRef, sessions,
                    restarted, revived, denied >>
    /\ UNCHANGED << micError >>
    /\ UNCHANGED otherThanVoice

\* window.onoffline; the handler is the one of the last committed render.
handleOffline ==
    /\ onLine
    /\ onLine' = FALSE
    /\ isOffline' = TRUE
    /\ voiceControlEnabled' = IF voiceCommitted THEN FALSE ELSE voiceControlEnabled
    /\ UNCHANGED << voiceCommitted, recognitionRef, sessions, restarted, revived,
                    denied >>
    /\ UNCHANGED << micError >>
    /\ UNCHANGED otherThanVoice

\* The Prompter after mount, for a song with voice control off.
InitVoice ==
    /\ voiceControlEnabled = FALSE
    /\ voiceCommitted = FALSE
    /\ isOffline = FALSE
    /\ onLine = TRUE
    /\ recognitionRef = 0
    /\ sessions = << >>
    /\ restarted = {}
    /\ revived = 0
    /\ denied = FALSE
    /\ micError = FALSE

NextVoice ==
    \/ toggleVoice
    \/ CommitVoice
    \/ \E s \in 1..Len(sessions) : onstart(s)
    \/ \E s \in 1..Len(sessions) : onend(s)
    \/ \E s \in 1..Len(sessions) : \E error \in RecognitionErrors : onerror(s, error)
    \/ handleOnline
    \/ handleOffline

(***************************************************************************)
(* ============  Prompter, lazy-load revision: voice control  ============ *)
(*                                                                         *)
(* src/unnamed/part_002 is a revision of the Prompter that waits one       *)
(* second after mount before it touches the network or the microphone      *)
(* (isHardwareReady), keeps isOffline from an HTTP probe as well as from   *)
(* the window events, and runs its voice effect again whenever             *)
(* voiceControlEnabled, isOffline or isHardwareReady changes.  A browser   *)
(* with speech recognition is assumed, so the branches for a missing or    *)
(* throwing SpeechRecognition class are left out, as is connectionChecking,*)
(* which only colours the voice button.                                    *)
(***************************************************************************)
\* The state `from` as a render sees it.
LazyState(from) ==
    [ready |-> from.isHardwareReady, offline |-> from.isOffline,
     enabled |-> from.voiceControlEnabled]

\* try { recognitionRef.current.stop() } on the session in recognitionRef.
LazyStopSession(ss, ref) ==
    IF ref # 0 /\ ss[ref].state \in {"starting", "running"}
    THEN [ss EXCEPT ![ref].state = "stopping"] ELSE ss

\* The render `r` creates no more sessions than are followed.
LazyCanCommit(r) ==
    (r # lazy.rendered /\ r.ready /\ r.enabled) => Len(lazy.sessions) < MaxSessions

\* React commits the render `r` in the state `from`.  The voice effect runs
\* if one of voiceControlEnabled, isOffline, isHardwareReady differs from the
\* last render: its cleanup and its body both stop the session in
\* recognitionRef and clear it, and if (isHardwareReady && voiceControlEnabled)
\* the body creates a session and starts it, whatever isOffline is.  The
\* connectivity effect runs when isHardwareReady has become true and calls
\* checkRealConnection.
LazyCommitTo(from, r) ==
    LET stopped == LazyStopSession(from.sessions, from.recognitionRef)
        voiceEffect ==
            IF r = from.rendered THEN from
            ELSE IF r.ready /\ r.enabled
                 THEN [from EXCEPT
                        !.sessions = Append(stopped, [state |-> "starting",
                                                      offline |-> r.offline]),
                        !.recognitionRef = Len(from.sessions) + 1]
                 ELSE [from EXCEPT !.sessions = stopped, !.recognitionRef = 0]
    IN  [voiceEffect EXCEPT
            !.rendered = r,
            !.connectionChecks = IF r.ready /\ ~from.rendered.ready THEN @ + 1 ELSE @]

\* setTimeout(() => setIsHardwareReady(true), 1000)
HardwareTimer ==
    /\ ~lazy.isHardwareReady
    /\ lazy' = [lazy EXCEPT !.isHardwareReady = TRUE]
    /\ UNCHANGED otherThanLazy

\* React commits the state updates made outside a click.
LazyCommit ==
    /\ LazyState(lazy) # lazy.rendered
    /\ LazyCanCommit(LazyState(lazy))
    /\ lazy' = LazyCommitTo(lazy, LazyState(lazy))
    /\ UNCHANGED otherThanLazy

\* The voice button (disabled={!isHardwareReady}):
\* setVoiceControlEnabled(!voiceControlEnabled), committed within the click
\* together with the updates that were waiting.
lazyToggleVoice ==
    /\ lazy.rendered.ready
    /\ LET toggled == [lazy EXCEPT !.voiceControlEnabled = ~lazy.rendered.enabled]
       IN  /\ LazyCanCommit(LazyState(toggled))
           /\ lazy' = LazyCommitTo(toggled, LazyState(toggled))
    /\ UNCHANGED otherThanLazy

\* The browser connects: window.ononline, registered once isHardwareReady is
\* rendered: setIsOffline(false); checkRealConnection().
lazyHandleOnline ==
    /\ ~lazy.onLine
    /\ IF lazy.rendered.ready
       THEN /\ lazy.connectionChecks < MaxChecks
            /\ lazy' = [lazy EXCEPT !.onLine = TRUE, !.isOffline = FALSE,
                                    !.connectionChecks = @ + 1]
       ELSE lazy' = [lazy EXCEPT !.onLine = TRUE]
    /\ UNCHANGED otherThanLazy

\* The browser disconnects: window.onoffline: setIsOffline(true).
lazyHandleOffline ==
    /\ lazy.onLine
    /\ lazy' = [lazy EXCEPT !.onLine = FALSE,
                            !.isOffline = (lazy.rendered.ready \/ @)]
    /\ UNCHANGED otherThanLazy

\* The fetch of checkRealConnection ends: resolved (which takes a connection)
\* setIsOffline(false), rejected or aborted after 1500 ms setIsOffline(true).
checkRealConnection(resolved) ==
    /\ lazy.connectionChecks > 0
    /\ resolved => lazy.onLine
    /\ lazy' = [lazy EXCEPT !.connectionChecks = @ - 1, !.isOffline = ~resolved]
    /\ UNCHANGED otherThanLazy

\* The browser has started session `s`.
lazyOnstart(s) ==
    /\ lazy.sessions[s].state = "starting"
    /\ lazy' = [lazy EXCEPT !.sessions[s].state = "running"]
    /\ UNCHANGED otherThanLazy

\* recognition.onend of session `s`:
\* if (voiceControlEnabled && !isOffline && recognitionRef.current) start again.
\* voiceControlEnabled and isOffline are those of the render that created the
\* session; the first is true.
lazyOnend(s) ==
    /\ lazy.sessions[s].state \in {"running", "stopping"}
    /\ lazy' = [lazy EXCEPT !.sessions[s].state =
                    IF ~lazy.sessions[s].offline /\ lazy.recognitionRef # 0
                    THEN "starting" ELSE "ended"]
    /\ UNCHANGED otherThanLazy

\* recognition.onerror of session `s`; the session ends after it.
lazyOnerror(s, error) ==
    /\ lazy.sessions[s].state \in
           (IF error = "no-speech" THEN {"running"} ELSE {"starting", "running"})
    /\ lazy' = [lazy EXCEPT
            !.sessions[s].state = "stopping",
            !.isOffline = (@ \/ error = "network"),
            !.micError = (@ \/ error = "not-allowed"),
            !.voiceControlEnabled =
                IF error \in {"network", "not-allowed"} THEN FALSE ELSE @]
    /\ UNCHANGED otherThanLazy

\* The revision after mount, for a song with voice control stored on or off,
\* on a device that is connected or not.
InitLazy ==
    lazy \in {[isHardwareReady |-> FALSE, isOffline |-> FALSE,
               voiceControlEnabled |-> enabled, micError |-> FALSE,
               rendered |-> [ready |-> FALSE, offline |-> FALSE, enabled |-> enabled],
               onLine |-> connected, connectionChecks |-> 0, recognitionRef |-> 0,
               sessions |-> << >>] : enabled \in BOOLEAN, connected \in BOOLEAN}

\* The song and the device the other parts are examined with.
LazyIdle == ~lazy.voiceControlEnabled /\ lazy.onLine

NextLazy ==
    \/ HardwareTimer
    \/ LazyCommit
    \/ lazyToggleVoice
    \/ lazyHandleOnline
    \/ lazyHandleOffline
    \/ \E resolved \in BOOLEAN : checkRealConnection(resolved)
    \/ \E s \in 1..Len(lazy.sessions) : lazyOnstart(s)
    \/ \E s \in 1..Len(lazy.sessions) : lazyOnend(s)
    \/ \E s \in 1..Len(lazy.sessions) : \E error \in RecognitionErrors : lazyOnerror(s, error)

(***************************************************************************)
(* ==================  useMetronome: the sound of a beat  ================ *)
(***************************************************************************)
\* soundType of a metronome
SoundTypes == {"beep", "drums"}

\* A drums branch that takes every bar for one that is not 4 beats long.
scheduleNoteFallback(beatNumber, bars, soundType) ==
    IF soundType = "beep"
    THEN IF beatNumber = 0 THEN "high beep" ELSE "low beep"
    ELSE IF beatNumber = 0 THEN "kick" ELSE "hi-hat"

\* scheduleNote: the sound that is put on the audio graph for a beat.
scheduleNote(beatNumber, bars, soundType) ==
    IF soundType = "beep"
    THEN IF beatNumber = 0 THEN "high beep" ELSE "low beep"
    ELSE LET isSnare == bars = 4 /\ (beatNumber = 1 \/ beatNumber = 3)
             isKick  == beatNumber = 0 \/ (bars = 4 /\ beatNumber = 2)
         IN  IF isKick THEN "kick" ELSE IF isSnare THEN "snare" ELSE "hi-hat"

\* One turn of the scheduler's loop: scheduleNote for the current beat, then
\* nextNote.
scheduleBeat ==
    /\ Len(drums.calls) < MaxNotes
    /\ drums' = [drums EXCEPT
            !.calls = Append(@, [beat |-> drums.beat, type |-> drums.soundType,
                                 sound |-> scheduleNote(drums.beat, drums.bars,
                                                        drums.soundType)]),
            !.beat = nextNote(0, drums.beat, 240, drums.bars)[2]]
    /\ UNCHANGED otherThanDrums

\* The sound button of LiveMode and the effect that copies soundType into
\* soundTypeRef.
toggleSoundType ==
    /\ drums' = [drums EXCEPT !.soundType = IF @ = "beep" THEN "drums" ELSE "beep"]
    /\ UNCHANGED otherThanDrums

\* A metronome for a song of some bar length with a sound type, before its
\* first beat.
InitDrums ==
    drums \in [beat : {0}, bars : 1..MaxBars, soundType : SoundTypes, calls : {<< >>}]

\* The song the other parts are examined with: DEFAULT_SONG's metronome.
DrumsIdle == drums.bars = 4 /\ drums.soundType = "drums"

NextDrums ==
    \/ scheduleBeat
    \/ toggleSoundType

(***************************************************************************)
(* =====================  LiveMode: the tempo controls  ================== *)
(*                                                                         *)
(* The parent component that receives onUpdate is not part of the sources, *)
(* so the song prop may carry the written tempo in the same render or in a *)
(* later one.                                                              *)
(***************************************************************************)
\* Math.max(30, Math.min(300, ...)), in half bpm
MinBpm == 60
MaxBpm == 600
\* if (newTaps.length > 8) newTaps.shift()
TapWindow == 8

\* A tempo without a fraction.
IsWhole(v) == v % 2 = 0

\* No clamping at all.
NoClampBpm(v) == v

\* Math.max(30, Math.min(300, v))
ClampBpm(v) == IF v > MaxBpm THEN MaxBpm ELSE IF v < MinBpm THEN MinBpm ELSE v

\* The sum of the intervals between successive taps.
RECURSIVE SumIntervals(_)
SumIntervals(taps) ==
    IF Len(taps) < 2 THEN 0
    ELSE (taps[2] - taps[1]) + SumIntervals(Tail(taps))

\* Math.round(60000 / avgInterval) for the taps, clamped: 60000 / avgInterval
\* is 600 * n / sum for n intervals that add up to `sum` units, Math.round(x)
\* is floor(x + 1/2), and a sum of 0 gives Infinity, which the clamp turns
\* into 300.
TappedBpm(taps) ==
    LET n == Len(taps) - 1
        sum == SumIntervals(taps)
    IN  IF sum = 0 THEN ClampBpm(2 * MaxBpm)
        ELSE ClampBpm(2 * ((1200 * n + sum) \div (2 * sum)))

\* setBpm(v) and onUpdate({...song, metronome: {...song.metronome, bpm: v}}),
\* from the state `from`: the parent passes the new song down in this render
\* or later.
WriteBpm(from, v) ==
    {[from EXCEPT !.bpm = v, !.written = v, !.songBpm = prop] :
        prop \in {from.songBpm, v}}

\* handleTapTempo, `gap` units after the last tap.  Time is counted from the
\* first tap of a burst.
handleTapTempo(gap) ==
    /\ Len(tempo.tapTimes) < MaxTaps
    /\ UNCHANGED otherThanTempo
    /\ LET now == IF tempo.tapTimes = << >> THEN 0 ELSE tempo.now + gap
           appended == Append(tempo.tapTimes, now)
           newTaps == IF Len(appended) > TapWindow THEN Tail(appended) ELSE appended
           tapped == [tempo EXCEPT !.now = now, !.tapTimes = newTaps]
       IN  IF Len(newTaps) >= 2
           THEN tempo' \in WriteBpm(tapped, TappedBpm(newTaps))
           ELSE tempo' = tapped

\* setTimeout(() => setTapTimes([]), 2000): the taps are forgotten.
tapTimeout ==
    /\ tempo.tapTimes # << >>
    /\ tempo' = [tempo EXCEPT !.tapTimes = << >>, !.now = 0]
    /\ UNCHANGED otherThanTempo

\* adjustBpm(delta), for the buttons and pedal keys (delta is 1 or -1 bpm)
adjustBpm(delta) ==
    /\ tempo.adjustments < MaxAdjustments
    /\ tempo' \in WriteBpm([tempo EXCEPT !.adjustments = @ + 1],
                            ClampBpm(tempo.bpm + 2 * delta))
    /\ UNCHANGED otherThanTempo

\* The tempo slider (min 30, max 300): parseInt(e.target.value)
sliderChange(val) ==
    /\ tempo' \in WriteBpm(tempo, val)
    /\ UNCHANGED otherThanTempo

\* The parent passes down the song it was given by onUpdate.
SongPropArrives ==
    /\ tempo.written # 0
    /\ tempo.songBpm # tempo.written
    /\ tempo' = [tempo EXCEPT !.songBpm = tempo.written]
    /\ UNCHANGED otherThanTempo

\* The sync effect: if (song.metronome && song.metronome.bpm !== bpm)
\* setBpm(song.metronome.bpm)
BpmSyncEffect ==
    /\ tempo.songBpm # tempo.bpm
    /\ tempo' = [tempo EXCEPT !.bpm = tempo.songBpm]
    /\ UNCHANGED otherThanTempo

\* Tempi of the songs LiveMode is opened with: 30.5, 120 and 299 bpm.
\* (importLibrary stores the bpm of an imported song as it finds it.)
SongTempi == {61, 240, 598}
\* Values of the slider: 30 and 300 bpm.
SliderValues == {60, 600}
\* Time between two taps: none (two events with one timestamp), 500 ms, and
\* 2100 ms when the 2000 ms timer is late.
TapGaps == {0, 5, 21}

InitTempo ==
    tempo \in {[bpm |-> v, songBpm |-> v, written |-> 0, tapTimes |-> << >>,
                now |-> 0, adjustments |-> 0] : v \in SongTempi}

\* The song the other parts are examined with: DEFAULT_SONG's 120 bpm.
TempoIdle == tempo.songBpm = 240

NextTempo ==
    \/ \E gap \in TapGaps : handleTapTempo(gap)
    \/ tapTimeout
    \/ \E delta \in {0 - 1, 1} : adjustBpm(delta)
    \/ \E val \in SliderValues : sliderChange(val)
    \/ SongPropArrives
    \/ BpmSyncEffect

(***************************************************************************)
(* ==================  LiveMode: the scroll speed  ======================= *)
(*                                                                         *)
(* As with the tempo, the song prop may carry the speed given to onUpdate  *)
(* in the same render or in a later one; songRef follows the prop.         *)
(***************************************************************************)
\* The speed slider: min="5" max="200"
MinSpeed == 5
MaxSpeed == 200

\* Math.round(currentSpeed * factor) for a factor given in tenths:
\* Math.round(x) is floor(x + 1/2).
ScaledSpeed(currentSpeed, tenths) == (tenths * currentSpeed + 5) \div 10

\* onUpdate({ ...song, scrollspeed: v }), from the state `from`: the parent
\* passes the new song down in this render or later.
WriteSpeed(from, v) ==
    {[from EXCEPT !.written = v, !.scrollspeed = prop] : prop \in {from.scrollspeed, v}}

\* handleSpeedAdjustment(factor), the factor in tenths
handleSpeedAdjustment(from, tenths) ==
    LET currentSpeed == from.scrollspeed
        scaled == ScaledSpeed(currentSpeed, tenths)
        newSpeed == IF scaled < MinSpeed THEN MinSpeed ELSE scaled
    IN  WriteSpeed(from, newSpeed)

\* handleKeyDown for PageDown (factor 1.1) and PageUp (factor 0.9): the
\* speed while scrolling, pageScroll otherwise.
pedalKey(tenths) ==
    /\ pedal.presses < MaxPresses
    /\ LET pressed == [pedal EXCEPT !.presses = @ + 1]
       IN  IF pedal.isScrollingRef
           THEN pedal' \in handleSpeedAdjustment([pressed EXCEPT !.outcome = "speed"], tenths)
           ELSE pedal' = [pressed EXCEPT !.outcome = "page"]
    /\ UNCHANGED otherThanSpeed

\* handleKeyDown for Enter: toggleScroll
pedalToggleScroll ==
    /\ pedal' = [pedal EXCEPT !.isScrollingRef = ~ @]
    /\ UNCHANGED otherThanSpeed

\* The speed slider: parseInt(e.target.value)
speedSliderChange(val) ==
    /\ pedal' \in WriteSpeed(pedal, val)
    /\ UNCHANGED otherThanSpeed

\* The parent passes down the song it was given by onUpdate.
SpeedPropArrives ==
    /\ pedal.written # 0
    /\ pedal.scrollspeed # pedal.written
    /\ pedal' = [pedal EXCEPT !.scrollspeed = pedal.written]
    /\ UNCHANGED otherThanSpeed

\* Speeds of the songs LiveMode is opened with: the ends of the slider and
\* DEFAULT_SONG's 30.
SongSpeeds == {5, 30, 200}
\* Values of the slider: its ends.
SpeedSliderValues == {5, 200}

InitSpeed ==
    pedal \in {[isScrollingRef |-> FALSE, scrollspeed |-> v, written |-> 0,
                outcome |-> "none", presses |-> 0] : v \in SongSpeeds}

\* The song the other parts are examined with: DEFAULT_SONG's 30 px/s.
SpeedIdle == pedal.scrollspeed = 30

NextSpeed ==
    \/ \E tenths \in {9, 11} : pedalKey(tenths)
    \/ pedalToggleScroll
    \/ \E val \in SpeedSliderValues : speedSliderChange(val)
    \/ SpeedPropArrives

(***************************************************************************)
(* ==================  storageService: importLibrary  ==================== *)
(*                                                                         *)
(* A field of a JSON object that may be missing is a sequence: << >> when  *)
(* the object has no such field, << v >> when it has the value v.          *)
(***************************************************************************)
\* export const DEFAULT_SONG
DEFAULT_SONG ==
    [title |-> "", lyrics |-> "", fontsize |-> 48, scrollspeed |-> 30,
     audioTrigger |-> [threshold |-> 0 - 35],
     metronome |-> [bpm |-> 120, beatsPerBar |-> 4, clickPitch |-> 1000,
                    enabled |-> FALSE]]

\* The keys of the store.
SongIds == {"a", "b"}

Optional(values) == {<< >>} \cup {<< v >> : v \in values}

\* The audioTrigger and metronome objects an entry can carry.
RawTriggers == [threshold : Optional({0 - 20})]
RawMetronomes ==
    [bpm : Optional({90}), beatsPerBar : Optional({3}),
     clickPitch : Optional({800}), enabled : Optional({TRUE})]

\* An entry with none of the settings.
BareSettings ==
    [fontsize |-> << >>, scrollspeed |-> << >>, audioTrigger |-> << >>,
     metronome |-> << >>, createdAt |-> << >>, order |-> << >>]

\* The entries of a file: any of the fields of a Song may be missing, an id,
\* a title and the lyrics may be empty, createdAt may be 0.  (These entries
\* have no playlist position; the entries of an exported library can.)
RawSongs ==
    [id : Optional(SongIds \cup {""}), title : Optional({"", "X"}),
     lyrics : Optional({"", "la"}), fontsize : Optional({24}),
     scrollspeed : Optional({60}), audioTrigger : Optional(RawTriggers),
     metronome : Optional(RawMetronomes), createdAt : Optional({0, 7}),
     order : {<< >>}]

\* The entries with neither lyrics nor settings, for the files with several
\* entries.
BareSongs ==
    [id : Optional(SongIds \cup {""}), title : Optional({"", "X"}),
     lyrics : {<< >>}, fontsize : {<< >>}, scrollspeed : {<< >>},
     audioTrigger : {<< >>}, metronome : {<< >>}, createdAt : {<< >>},
     order : {<< >>}]

\* The sequences of at most n elements of a set.
SeqUpTo(S, n) == UNION {[1..k -> S] : k \in 0..n}

\* What JSON.parse can give: a syntax error, an array of songs, a library
\* object { version, songs: [...] }, or another object (with `entries` its
\* only element).
ParsedInputs ==
    {[shape |-> "invalid", entries |-> << >>]}
    \cup {[shape |-> sh, entries |-> << rawSong >>] :
            sh \in {"array", "library", "object"}, rawSong \in RawSongs}
    \cup {[shape |-> sh, entries |-> list] :
            sh \in {"array", "library"}, list \in SeqUpTo(BareSongs, MaxEntries)}

\* Date.now() at the import
ImportTimes == {8, 9}

\* rawSong.id && ..., for a field holding a string
DefinedString(field) == field # << >>
TruthyString(field) == field # << >> /\ field[1] # ""

\* A spread of the defaults and then of the entry: the entry's field if it
\* has one, the default otherwise.
PickDefault(field, default) == default
Pick(field, default) == IF field = << >> THEN default ELSE field[1]

\* { ...DEFAULT_SONG.audioTrigger, ...(rawSong.audioTrigger || {}) }
MergedTrigger(field) ==
    LET given == IF field = << >> THEN [threshold |-> << >>] ELSE field[1]
    IN  [threshold |-> Pick(given.threshold, DEFAULT_SONG.audioTrigger.threshold)]

\* { ...DEFAULT_SONG.metronome, ...(rawSong.metronome || {}) }
MergedMetronome(field) ==
    LET none == [bpm |-> << >>, beatsPerBar |-> << >>, clickPitch |-> << >>,
                 enabled |-> << >>]
        given == IF field = << >> THEN none ELSE field[1]
    IN  [bpm |-> Pick(given.bpm, DEFAULT_SONG.metronome.bpm),
         beatsPerBar |-> Pick(given.beatsPerBar, DEFAULT_SONG.metronome.beatsPerBar),
         clickPitch |-> Pick(given.clickPitch, DEFAULT_SONG.metronome.clickPitch),
         enabled |-> Pick(given.enabled, DEFAULT_SONG.metronome.enabled)]

\* const song = { ...DEFAULT_SONG, ...rawSong, audioTrigger: ..., metronome: ... };
\* song.id = rawSong.id; song.createdAt = rawSong.createdAt || Date.now()
\* (the optional `order` of a Song is carried over by the spread)
MergedSong(rawSong, now) ==
    [id |-> rawSong.id[1],
     title |-> Pick(rawSong.title, DEFAULT_SONG.title),
     lyrics |-> Pick(rawSong.lyrics, DEFAULT_SONG.lyrics),
     fontsize |-> Pick(rawSong.fontsize, DEFAULT_SONG.fontsize),
     scrollspeed |-> Pick(rawSong.scrollspeed, DEFAULT_SONG.scrollspeed),
     audioTrigger |-> MergedTrigger(rawSong.audioTrigger),
     metronome |-> MergedMetronome(rawSong.metronome),
     createdAt |-> IF rawSong.createdAt # << >> /\ rawSong.createdAt[1] # 0
                   THEN rawSong.createdAt[1] ELSE now,
     order |-> rawSong.order]

\* saveSong: localforage.setItem(song.id, song)
saveSong(store, song) == [store EXCEPT ![song.id] = << song >>]

\* for (const rawSong of songsToImport): the store and the count after it
RECURSIVE importLoop(_, _, _, _)
importLoop(songsToImport, store, count, now) ==
    IF songsToImport = << >> THEN [store |-> store, count |-> count]
    ELSE LET rawSong == Head(songsToImport)
         IN  IF TruthyString(rawSong.id) /\ TruthyString(rawSong.title)
             THEN importLoop(Tail(songsToImport),
                             saveSong(store, MergedSong(rawSong, now)), count + 1, now)
             ELSE importLoop(Tail(songsToImport), store, count, now)

Returned(count) == [kind |-> "count", count |-> count, message |-> ""]
Thrown(message) == [kind |-> "error", count |-> 0, message |-> message]
Pending == [kind |-> "pending", count |-> 0, message |-> ""]

\* importLibrary(jsonString), called at the time `now` on a store: the store
\* it leaves and how it ends
importResult(parsed, store, now) ==
    IF parsed.shape = "invalid"
    THEN [store |-> store, result |-> Thrown("Invalid JSON syntax")]
    ELSE IF /\ parsed.shape = "object"
            /\ ~ (/\ TruthyString(parsed.entries[1].title)
                  /\ TruthyString(parsed.entries[1].lyrics))
    THEN [store |-> store, result |->
            Thrown("Unrecognized file format. JSON must be a Song Library, a list of songs, or a single song.")]
    ELSE LET songsToImport == parsed.entries
             done == importLoop(songsToImport, store, 0, now)
         IN  [store |-> done.store,
              result |-> IF done.count = 0 /\ Len(songsToImport) > 0
                         THEN Thrown("No valid songs found (IDs or Titles missing).")
                         ELSE Returned(done.count)]

\* importLibrary(jsonString)
importLibrary ==
    /\ library.parsed.shape # "none"
    /\ library.result = Pending
    /\ UNCHANGED otherThanImport
    /\ \E now \in ImportTimes :
        LET done == importResult(library.parsed, library.store, now)
        IN  library' = [library EXCEPT !.store = done.store, !.result = done.result]

\* A song saved earlier, by the editor.
SavedSong ==
    [id |-> "a", title |-> "Old", lyrics |-> "mm", fontsize |-> 60,
     scrollspeed |-> 45, audioTrigger |-> [threshold |-> 0 - 40],
     metronome |-> [bpm |-> 100, beatsPerBar |-> 3, clickPitch |-> 1200,
                    enabled |-> TRUE],
     createdAt |-> 2, order |-> << >>]

EmptyStore == [id \in SongIds |-> << >>]

InitImport ==
    library \in [parsed : ParsedInputs,
                 store : {EmptyStore, saveSong(EmptyStore, SavedSong)},
                 result : {Pending}, exported : {EmptyStore}]

\* No file is imported while the other parts are examined: one of the
\* states of InitImport.
ImportIdle ==
    library = [parsed |-> [shape |-> "invalid", entries |-> << >>],
               store |-> EmptyStore, result |-> Pending, exported |-> EmptyStore]

NextImport ==
    \/ importLibrary

(***************************************************************************)
(* ==========  The saves of the application and exportLibrary  =========== *)
(***************************************************************************)
\* No file has been chosen yet.
NoFile == [shape |-> "none", entries |-> << >>]

\* What the editor's title and lyrics fields can hold at a save, and the
\* scroll speeds of the list's slider.
EditorTitles == {"", "X"}
EditorLyrics == {"", "la"}
QuickSpeeds == {30, 60}

\* const base = existingSong || { ...DEFAULT_SONG, id: uuidv4(), createdAt: Date.now() }
NewSong(id, now) ==
    [id |-> id, title |-> DEFAULT_SONG.title, lyrics |-> DEFAULT_SONG.lyrics,
     fontsize |-> DEFAULT_SONG.fontsize, scrollspeed |-> DEFAULT_SONG.scrollspeed,
     audioTrigger |-> DEFAULT_SONG.audioTrigger, metronome |-> DEFAULT_SONG.metronome,
     createdAt |-> now, order |-> << >>]

\* SongEditor: handleSubmit, reached from the Save button of the header (which
\* is outside the form, so the `required` of the title input is not
\* enforced) with the form data as edited: saveSong(formData)
handleSubmit(id, title, lyrics, now) ==
    /\ library.parsed = NoFile
    /\ UNCHANGED otherThanImport
    /\ LET base == IF library.store[id] # << >> THEN library.store[id][1]
                   ELSE NewSong(id, now)
           formData == [base EXCEPT !.title = title, !.lyrics = lyrics]
       IN  library' = [library EXCEPT !.store = saveSong(@, formData)]

\* SongEditor: handleDelete, confirmed: deleteSong(formData.id)
handleDelete(id) ==
    /\ library.parsed = NoFile
    /\ library.store[id] # << >>
    /\ UNCHANGED otherThanImport
    /\ library' = [library EXCEPT !.store[id] = << >>]

\* App: handleQuickUpdate(updatedSong), from a slider of the list
handleQuickUpdate(id, scrollspeed) ==
    /\ library.parsed = NoFile
    /\ library.store[id] # << >>
    /\ UNCHANGED otherThanImport
    /\ LET updatedSong == [library.store[id][1] EXCEPT !.scrollspeed = scrollspeed]
       IN  library' = [library EXCEPT !.store = saveSong(@, updatedSong)]

\* The ids of the songs in a store.
Present(store) == {id \in SongIds : store[id] # << >>}

\* App: handleReorder(newOrderSongs): { ...song, order: index } is saved for
\* every song of the list, in its new order.
handleReorder(newOrderSongs) ==
    /\ library.parsed = NoFile
    /\ Len(newOrderSongs) > 0
    /\ UNCHANGED otherThanImport
    /\ library' = [library EXCEPT !.store =
            [id \in SongIds |->
                IF id \in Present(library.store)
                THEN LET index == CHOOSE i \in DOMAIN newOrderSongs : newOrderSongs[i] = id
                     IN  << [library.store[id][1] EXCEPT !.order = << index - 1 >>] >>
                ELSE << >>]]

\* The orders in which the list can be dragged: the songs of the store, each
\* once.
Reorderings(store) ==
    {list \in [1..Cardinality(Present(store)) -> Present(store)] :
        \A i, j \in DOMAIN list : i # j => list[i] # list[j]}

\* a.title.localeCompare(b.title) < 0, for the titles and the keys used here
TextRank(text) ==
    CASE text = "" -> 0 [] text = "a" -> 1 [] text = "b" -> 2
      [] text = "Old" -> 3 [] OTHER -> 4

\* The comparison of getAllSongs: by order (a song without one comes after
\* every song that has one), then by title; songs that tie stay in the order
\* the store iterates them, by key.
ComesBefore(a, b) ==
    LET orderLess == a.order # << >> /\ (b.order = << >> \/ a.order[1] < b.order[1])
        orderSame == a.order = b.order
    IN  \/ orderLess
        \/ orderSame /\ TextRank(a.title) < TextRank(b.title)
        \/ orderSame /\ a.title = b.title /\ TextRank(a.id) < TextRank(b.id)

\* getAllSongs()
getAllSongs(store) ==
    LET sorted == CHOOSE list \in Reorderings(store) :
                    \A i, j \in DOMAIN list :
                        i < j => ComesBefore(store[list[i]][1], store[list[j]][1])
    IN  [i \in DOMAIN sorted |-> store[sorted[i]][1]]

\* JSON.stringify and JSON.parse of a song: every field it has is in the
\* entry, a field that is undefined (order) is not.
Serialized(song) ==
    [id |-> << song.id >>, title |-> << song.title >>, lyrics |-> << song.lyrics >>,
     fontsize |-> << song.fontsize >>, scrollspeed |-> << song.scrollspeed >>,
     audioTrigger |-> << [threshold |-> << song.audioTrigger.threshold >>] >>,
     metronome |-> << [bpm |-> << song.metronome.bpm >>,
                       beatsPerBar |-> << song.metronome.beatsPerBar >>,
                       clickPitch |-> << song.metronome.clickPitch >>,
                       enabled |-> << song.metronome.enabled >>] >>,
     createdAt |-> << song.createdAt >>, order |-> song.order]

\* exportLibrary(): { version: 1, songs }, as read back by JSON.parse
exportLibrary(store) ==
    LET songs == getAllSongs(store)
    IN  [shape |-> "library", entries |-> [i \in DOMAIN songs |-> Serialized(songs[i])]]

\* The library is exported and the file is taken to an empty store.
exportToEmptyStore ==
    /\ library.parsed = NoFile
    /\ UNCHANGED otherThanImport
    /\ library' = [parsed |-> exportLibrary(library.store), store |-> EmptyStore,
                   result |-> Pending, exported |-> library.store]

InitRoundTrip ==
    library = [parsed |-> NoFile, store |-> EmptyStore, result |-> Pending,
               exported |-> EmptyStore]

NextRoundTrip ==
    \/ \E id \in SongIds, title \in EditorTitles, lyrics \in EditorLyrics,
          now \in ImportTimes : handleSubmit(id, title, lyrics, now)
    \/ \E id \in SongIds : handleDelete(id)
    \/ \E id \in SongIds, scrollspeed \in QuickSpeeds : handleQuickUpdate(id, scrollspeed)
    \/ \E newOrderSongs \in Reorderings(library.store) : handleReorder(newOrderSongs)
    \/ exportToEmptyStore
    \/ importLibrary

(***************************************************************************)
(* ==========  Prompter: a touch on the scroller  ======================== *)
(*                                                                         *)
(* The scroller's touch handlers with the finger itself in the state, and  *)
(* what isScrollingRef holds back: the scroll animation and the loudness   *)
(* trigger (auto-start on; the play button is not used, so that no         *)
(* cooldown runs).                                                         *)
(***************************************************************************)
\* onTouchStart={handleScrollBegin}
touchStart ==
    /\ ~gesture.touching
    /\ UNCHANGED otherThanGesture
    /\ gesture' = [gesture EXCEPT !.touching = TRUE, !.isScrollingRef = TRUE]

\* onTouchMove={handleScrollBegin}; the browser scrolls the text with the
\* finger.
touchMove(pos) ==
    /\ gesture.touching
    /\ UNCHANGED otherThanGesture
    /\ gesture' = [gesture EXCEPT !.isScrollingRef = TRUE, !.scrollTop = pos]

\* onTouchEnd={handleScrollEnd}: setTimeout(() => { isScrollingRef.current = false; }, 200)
touchEnd ==
    /\ gesture.touching
    /\ gesture.timers < MaxTimers
    /\ UNCHANGED otherThanGesture
    /\ gesture' = [gesture EXCEPT !.touching = FALSE, !.timers = @ + 1]

\* A 200 ms timer of handleScrollEnd fires.
settleTimeout ==
    /\ gesture.timers > 0
    /\ UNCHANGED otherThanGesture
    /\ gesture' = [gesture EXCEPT !.timers = @ - 1, !.isScrollingRef = FALSE]

\* A frame of animate while PLAYING: the text moves on by a pixel unless
\* isScrollingRef is set, and reaching the end pauses.
gestureAnimate ==
    /\ gesture.playing
    /\ ~gesture.isScrollingRef
    /\ UNCHANGED otherThanGesture
    /\ LET top == IF gesture.scrollTop < MaxScroll THEN gesture.scrollTop + 1
                  ELSE gesture.scrollTop
       IN  gesture' = [gesture EXCEPT
                !.scrollTop = top,
                !.playing = top < MaxScroll,
                !.overridden = @ \/ gesture.touching]

\* A frame of analyzeAudio, loud or not.
gestureAnalyzeAudio(loud) ==
    /\ UNCHANGED otherThanGesture
    /\ IF ~gesture.playing /\ gesture.scrollTop < MaxScroll /\ ~gesture.isScrollingRef
       THEN LET counted == IF loud THEN gesture.counter + 1
                           ELSE IF gesture.counter > 0 THEN gesture.counter - 1 ELSE 0
            IN  IF counted >= REQUIRED_CONFIDENCE_FRAMES
                THEN gesture' = [gesture EXCEPT !.playing = TRUE, !.counter = 0,
                                                !.overridden = @ \/ gesture.touching]
                ELSE gesture' = [gesture EXCEPT !.counter = counted]
       ELSE gesture' = [gesture EXCEPT !.counter = 0]

InitGesture ==
    gesture \in [touching : {FALSE}, isScrollingRef : {FALSE}, timers : {0},
                 playing : BOOLEAN, scrollTop : {0}, counter : {0},
                 overridden : {FALSE}]

\* No finger comes near the scroller while the other parts are examined.
GestureIdle == ~gesture.playing

NextGesture ==
    \/ touchStart
    \/ \E pos \in 0..MaxScroll : touchMove(pos)
    \/ touchEnd
    \/ settleTimeout
    \/ gestureAnimate
    \/ \E loud \in BOOLEAN : gestureAnalyzeAudio(loud)

(***************************************************************************)
(* ==========  Prompter and App: the settings write-back  ================ *)
(*                                                                         *)
(* The Prompter's save-settings effect has onUpdateSongSettings among its  *)
(* dependencies; the App passes its handleUpdateSettings, a function made  *)
(* anew by every render of the App.                                        *)
(***************************************************************************)
\* The values a setting takes here: the second is what the user changes it
\* to, the first what the song came with.
SettingValues ==
    [scrollSpeed |-> << 4, 5 >>, fontSize |-> << 48, 52 >>,
     autoStartEnabled |-> << TRUE, FALSE >>, audioThreshold |-> << 20, 25 >>,
     voiceControlEnabled |-> << FALSE, TRUE >>]

SettingNames == DOMAIN SettingValues

\* The user changes a setting of the Prompter (a button, a slider, a voice
\* command): a state of the effect's dependency list changes.
changeSetting(name) ==
    /\ writeback.changes < MaxChanges
    /\ UNCHANGED otherThanWriteback
    /\ LET values == SettingValues[name]
           other == IF writeback.settings[name] = values[1] THEN values[2]
                    ELSE values[1]
       IN  writeback' = [writeback EXCEPT !.settings[name] = other,
                                          !.effectDue = TRUE,
                                          !.changes = @ + 1]

\* The save-settings effect runs: onUpdateSongSettings(song.id, {...}), that
\* is the App's handleUpdateSettings: setState(prev => ({ ...prev, songs:
\* prev.songs.map(...) })), always a new state object.
saveSettingsEffect ==
    /\ writeback.effectDue
    /\ UNCHANGED otherThanWriteback
    /\ writeback' = [writeback EXCEPT !.saved = writeback.settings,
                                      !.effectDue = FALSE,
                                      !.appDirty = TRUE]

\* The App renders with its new state: handleUpdateSettings is a new
\* function, the Prompter is rendered with it as onUpdateSongSettings, and
\* the effect's dependency list has changed.
appRender ==
    /\ writeback.appDirty
    /\ UNCHANGED otherThanWriteback
    /\ writeback' = [writeback EXCEPT !.appDirty = FALSE, !.effectDue = TRUE]

\* The Prompter has been mounted for a song: the effect is due, as every
\* effect is after the first render.
InitWriteback ==
    writeback \in [settings : {[name \in SettingNames |-> SettingValues[name][1]]},
                   saved : {[name \in SettingNames |-> SettingValues[name][1]]},
                   effectDue : BOOLEAN, appDirty : {FALSE}, changes : {0}]

\* No Prompter is mounted while the other parts are examined.
WritebackIdle == ~writeback.effectDue

NextWriteback ==
    \/ \E name \in SettingNames : changeSetting(name)
    \/ saveSettingsEffect
    \/ appRender

(***************************************************************************)
(* ======================  Specifications  =============================== *)
(***************************************************************************)
vars == << metroVars, liveVars, promptVars, voiceVars, micError, lazyVars, drumVars, tempoVars, speedVars, importVars, gestureVars, writebackVars >>

\* The metronome, with LiveMode's monitor left as constructed.
InitSpecMetronome ==
    InitMetronome /\ InitLive /\ ContentFits /\ InitPrompter /\ autoStartEnabled /\ TriggerLayout
    /\ InitVoice
    /\ InitLazy /\ LazyIdle
    /\ InitDrums /\ DrumsIdle
    /\ InitTempo /\ TempoIdle
    /\ InitSpeed /\ SpeedIdle
    /\ ImportIdle
    /\ InitGesture /\ GestureIdle
    /\ InitWriteback /\ WritebackIdle
SpecMetronome == InitSpecMetronome /\ [][NextMetronome]_vars

\* The metronome, polled at given gaps.
InitSpecLookahead ==
    InitMetronome /\ InitLive /\ ContentFits /\ InitPrompter /\ autoStartEnabled /\ TriggerLayout
    /\ InitVoice
    /\ InitLazy /\ LazyIdle
    /\ InitDrums /\ DrumsIdle
    /\ InitTempo /\ TempoIdle
    /\ InitSpeed /\ SpeedIdle
    /\ ImportIdle
    /\ InitGesture /\ GestureIdle
    /\ InitWriteback /\ WritebackIdle
SpecLookahead == InitSpecLookahead /\ [][NextLookahead]_vars

\* The metronome, with the bar length changing during a run.
InitSpecBars ==
    InitMetronome /\ InitLive /\ ContentFits /\ InitPrompter /\ autoStartEnabled /\ TriggerLayout
    /\ InitVoice
    /\ InitLazy /\ LazyIdle
    /\ InitDrums /\ DrumsIdle
    /\ InitTempo /\ TempoIdle
    /\ InitSpeed /\ SpeedIdle
    /\ ImportIdle
    /\ InitGesture /\ GestureIdle
    /\ InitWriteback /\ WritebackIdle
SpecBars == InitSpecBars /\ [][NextBars]_vars

\* LiveMode's monitor, with the metronome never started.
InitSpecLive ==
    InitLive /\ ContentFits /\ InitMetronome /\ bpm = 240 /\ beatsPerBarRef = 4 /\ InitPrompter
    /\ autoStartEnabled /\ TriggerLayout /\ InitVoice
    /\ InitLazy /\ LazyIdle
    /\ InitDrums /\ DrumsIdle
    /\ InitTempo /\ TempoIdle
    /\ InitSpeed /\ SpeedIdle
    /\ ImportIdle
    /\ InitGesture /\ GestureIdle
    /\ InitWriteback /\ WritebackIdle
SpecLive == InitSpecLive /\ [][NextLive]_vars

\* LiveMode for a text of any height.
InitSpecLiveScroll ==
    InitLive /\ InitMetronome /\ bpm = 240 /\ beatsPerBarRef = 4 /\ InitPrompter
    /\ autoStartEnabled /\ TriggerLayout /\ InitVoice
    /\ InitLazy /\ LazyIdle
    /\ InitDrums /\ DrumsIdle
    /\ InitTempo /\ TempoIdle
    /\ InitSpeed /\ SpeedIdle
    /\ ImportIdle
    /\ InitGesture /\ GestureIdle
    /\ InitWriteback /\ WritebackIdle
SpecLiveScroll == InitSpecLiveScroll /\ [][NextLiveScroll]_vars

\* The Prompter's play state machine and loudness trigger; LiveMode is not
\* mounted.
InitSpecPrompter ==
    InitPrompter /\ TriggerLayout /\ InitLive /\ ContentFits /\ InitMetronome /\ bpm = 240
    /\ beatsPerBarRef = 4 /\ InitVoice
    /\ InitLazy /\ LazyIdle
    /\ InitDrums /\ DrumsIdle
    /\ InitTempo /\ TempoIdle
    /\ InitSpeed /\ SpeedIdle
    /\ ImportIdle
    /\ InitGesture /\ GestureIdle
    /\ InitWriteback /\ WritebackIdle
SpecPrompter == InitSpecPrompter /\ [][NextPrompter]_vars

\* The Prompter's scrolling with auto-start off, for every layout; a frame's
\* timestamp can be earlier than the last one.
NextScroll ==
    \/ \E d \in AnomalousSteps : animate(d)
    \/ Commit
    \/ togglePlay
    \/ handleReset
    \/ \E cmd \in VoiceCommands : handleVoiceCommand(cmd)
    \/ handleScrollBegin
    \/ \E pos \in 0..scrollLimit : onScroll(pos)
    \/ handleScrollEnd
    \/ ScrollEndTimeout

\* The Prompter's voice commands, for every utterance.
NextCommands ==
    \/ \E text \in Utterances : onresult(text)
    \/ Commit

InitSpecCommands ==
    InitPrompter /\ ~autoStartEnabled /\ TriggerLayout /\ InitLive /\ ContentFits
    /\ InitMetronome /\ bpm = 240 /\ beatsPerBarRef = 4 /\ InitVoice
    /\ InitLazy /\ LazyIdle
    /\ InitDrums /\ DrumsIdle
    /\ InitTempo /\ TempoIdle
    /\ InitSpeed /\ SpeedIdle
    /\ ImportIdle
    /\ InitGesture /\ GestureIdle
    /\ InitWriteback /\ WritebackIdle
SpecCommands == InitSpecCommands /\ [][NextCommands]_vars

InitSpecScroll ==
    InitPrompter /\ ~autoStartEnabled /\ InitLive /\ ContentFits /\ InitMetronome /\ bpm = 240
    /\ beatsPerBarRef = 4 /\ InitVoice
    /\ InitLazy /\ LazyIdle
    /\ InitDrums /\ DrumsIdle
    /\ InitTempo /\ TempoIdle
    /\ InitSpeed /\ SpeedIdle
    /\ ImportIdle
    /\ InitGesture /\ GestureIdle
    /\ InitWriteback /\ WritebackIdle
SpecScroll == InitSpecScroll /\ [][NextScroll]_vars

\* LiveMode on stage: the scroll playback and the click track side by side,
\* for a text longer than the screen.
NextStage ==
    \/ toggleScroll
    \/ liveHandleReset
    \/ \E moveAmount \in MoveAmounts : scroll(moveAmount)
    \/ ToggleStart
    \/ ToggleStop
    \/ ContextSettle
    \/ scheduler
    \/ AdvanceClock

InitSpecStage ==
    InitLive /\ containerMaxScroll = MaxScroll /\ containerLimit = MaxScroll
    /\ InitMetronome /\ bpm = 240 /\ beatsPerBarRef = 4
    /\ InitPrompter /\ autoStartEnabled /\ TriggerLayout /\ InitVoice
    /\ InitLazy /\ LazyIdle
    /\ InitDrums /\ DrumsIdle
    /\ InitTempo /\ TempoIdle
    /\ InitSpeed /\ SpeedIdle
    /\ ImportIdle
    /\ InitGesture /\ GestureIdle
    /\ InitWriteback /\ WritebackIdle
SpecStage == InitSpecStage /\ [][NextStage]_vars

\* The tempo controls of LiveMode.
InitSpecTempo ==
    InitVoice /\ InitPrompter /\ autoStartEnabled /\ TriggerLayout /\ InitLive
    /\ ContentFits /\ InitMetronome /\ bpm = 240 /\ beatsPerBarRef = 4
    /\ InitLazy /\ LazyIdle
    /\ InitDrums /\ DrumsIdle
    /\ InitTempo
    /\ InitSpeed /\ SpeedIdle
    /\ ImportIdle
    /\ InitGesture /\ GestureIdle
    /\ InitWriteback /\ WritebackIdle
SpecTempo == InitSpecTempo /\ [][NextTempo]_vars

\* The scroll speed of LiveMode under the pedal's keys and the slider.
InitSpecSpeed ==
    InitVoice /\ InitPrompter /\ autoStartEnabled /\ TriggerLayout /\ InitLive
    /\ ContentFits /\ InitMetronome /\ bpm = 240 /\ beatsPerBarRef = 4
    /\ InitLazy /\ LazyIdle
    /\ InitDrums /\ DrumsIdle
    /\ InitTempo /\ TempoIdle
    /\ InitSpeed
    /\ ImportIdle
    /\ InitGesture /\ GestureIdle
    /\ InitWriteback /\ WritebackIdle
SpecSpeed == InitSpecSpeed /\ [][NextSpeed]_vars

\* The import of a file into the library.
InitSpecImport ==
    InitVoice /\ InitPrompter /\ autoStartEnabled /\ TriggerLayout /\ InitLive
    /\ ContentFits /\ InitMetronome /\ bpm = 240 /\ beatsPerBarRef = 4
    /\ InitLazy /\ LazyIdle
    /\ InitDrums /\ DrumsIdle
    /\ InitTempo /\ TempoIdle
    /\ InitSpeed /\ SpeedIdle
    /\ InitImport
    /\ InitGesture /\ GestureIdle
    /\ InitWriteback /\ WritebackIdle
SpecImport == InitSpecImport /\ [][NextImport]_vars

\* The Prompter's scroller under the finger.
InitSpecGesture ==
    InitMetronome /\ bpm = 240 /\ beatsPerBarRef = 4 /\ InitLive /\ ContentFits /\ InitPrompter
    /\ autoStartEnabled /\ TriggerLayout /\ InitVoice
    /\ InitLazy /\ LazyIdle
    /\ InitDrums /\ DrumsIdle
    /\ InitTempo /\ TempoIdle
    /\ InitSpeed /\ SpeedIdle
    /\ ImportIdle
    /\ InitGesture
    /\ InitWriteback /\ WritebackIdle
SpecGesture == InitSpecGesture /\ [][NextGesture]_vars

\* The settings write-back of a mounted Prompter.
InitSpecWriteback ==
    InitMetronome /\ bpm = 240 /\ beatsPerBarRef = 4 /\ InitLive /\ ContentFits /\ InitPrompter
    /\ autoStartEnabled /\ TriggerLayout /\ InitVoice
    /\ InitLazy /\ LazyIdle
    /\ InitDrums /\ DrumsIdle
    /\ InitTempo /\ TempoIdle
    /\ InitSpeed /\ SpeedIdle
    /\ ImportIdle
    /\ InitGesture /\ GestureIdle
    /\ InitWriteback /\ writeback.effectDue
SpecWriteback == InitSpecWriteback /\ [][NextWriteback]_vars

\* React runs the effects that are due and renders the updates it has
\* queued.
SpecWritebackFair ==
    /\ SpecWriteback
    /\ WF_vars(saveSettingsEffect)
    /\ WF_vars(appRender)

\* A library built by the saves of the application, exported, and imported
\* into an empty store.
InitSpecRoundTrip ==
    InitMetronome /\ bpm = 240 /\ beatsPerBarRef = 4 /\ InitLive /\ ContentFits /\ InitPrompter
    /\ autoStartEnabled /\ TriggerLayout /\ InitVoice
    /\ InitLazy /\ LazyIdle
    /\ InitDrums /\ DrumsIdle
    /\ InitTempo /\ TempoIdle
    /\ InitSpeed /\ SpeedIdle
    /\ InitRoundTrip
    /\ InitGesture /\ GestureIdle
    /\ InitWriteback /\ WritebackIdle
SpecRoundTrip == InitSpecRoundTrip /\ [][NextRoundTrip]_vars

\* The sounds of the metronome's beats, for every bar length.
InitSpecDrums ==
    InitVoice /\ InitPrompter /\ autoStartEnabled /\ TriggerLayout /\ InitLive
    /\ ContentFits /\ InitMetronome /\ bpm = 240 /\ beatsPerBarRef = 4
    /\ InitLazy /\ LazyIdle
    /\ InitDrums
    /\ InitTempo /\ TempoIdle
    /\ InitSpeed /\ SpeedIdle
    /\ ImportIdle
    /\ InitGesture /\ GestureIdle
    /\ InitWriteback /\ WritebackIdle
SpecDrums == InitSpecDrums /\ [][NextDrums]_vars

\* The lazy-load revision's voice control and connectivity.
InitSpecLazy ==
    InitLazy /\ InitVoice /\ InitPrompter /\ autoStartEnabled /\ TriggerLayout /\ InitLive
    /\ ContentFits /\ InitMetronome /\ bpm = 240 /\ beatsPerBarRef = 4
    /\ InitDrums /\ DrumsIdle
    /\ InitTempo /\ TempoIdle
    /\ InitSpeed /\ SpeedIdle
    /\ ImportIdle
    /\ InitGesture /\ GestureIdle
    /\ InitWriteback /\ WritebackIdle
SpecLazy == InitSpecLazy /\ [][NextLazy]_vars

\* The Prompter's voice control, with the rest of the Prompter left as mounted.
InitSpecVoice ==
    InitVoice /\ InitPrompter /\ autoStartEnabled /\ TriggerLayout /\ InitLive /\ ContentFits
    /\ InitMetronome /\ bpm = 240 /\ beatsPerBarRef = 4
    /\ InitLazy /\ LazyIdle
    /\ InitDrums /\ DrumsIdle
    /\ InitTempo /\ TempoIdle
    /\ InitSpeed /\ SpeedIdle
    /\ ImportIdle
    /\ InitGesture /\ GestureIdle
    /\ InitWriteback /\ WritebackIdle
SpecVoice == InitSpecVoice /\ [][NextVoice]_vars

\* The end event of a session that was stopped or had an error.
EndOfStopped(s) == s <= Len(sessions) /\ sessions[s] = "stopping" /\ onend(s)

\* The voice control where the browser delivers the events it owes (the start
\* of a session that is starting, the end of one that was stopped or failed)
\* and React commits the updates it has scheduled.
SpecVoiceFair ==
    /\ SpecVoice
    /\ WF_vars(CommitVoice)
    /\ \A s \in 1..MaxSessions : WF_vars(s <= Len(sessions) /\ onstart(s))
    /\ \A s \in 1..MaxSessions : WF_vars(EndOfStopped(s))

(***************************************************************************)
(* ===========================  Claims  ================================== *)
(***************************************************************************)

\* C4 (LiveMode, SpecLive): after a manual pause (toggleScroll from scrolling
\* to not scrolling) the audio trigger does not set isScrolling back to true
\* during a cooldown window after the pause.  Stated for the shortest window
\* this clock can measure: scrolling that the trigger started is never seen
\* before the clock has moved on from the pause.
C4_PauseBeatsTrigger ==
    (isScrolling /\ startedBy = "trigger") => sincePause # "now"

\* C5 (useAudioMonitor, SpecLive): `triggered` is raised only after the level
\* was above the threshold in a required number of consecutive analysed frames;
\* one frame above the threshold that follows silence does not raise it.
\* Stated for the smallest debounce there is: two frames.
C5_TriggerIsDebounced ==
    triggered => triggerRun >= 2

\* C7 (useMetronome, SpecMetronome): within one run (since the last start
\* step) the times passed to scheduleNote are strictly increasing, successive
\* times differ by 60/bpm for the bpm in force when the earlier beat was
\* scheduled, nextNoteTime is the time after the last scheduled beat, and
\* nextNoteTime never decreases except in a start step.
C7_TimesInvariant ==
    /\ \A i \in 1..(Len(scheduleNoteCalls) - 1) :
          /\ scheduleNoteCalls[i + 1].time > scheduleNoteCalls[i].time
          /\ scheduleNoteCalls[i + 1].time - scheduleNoteCalls[i].time
               = SecondsPerBeat(scheduleNoteCalls[i].bpm)
    /\ scheduleNoteCalls # << >> =>
          nextNoteTime = scheduleNoteCalls[Len(scheduleNoteCalls)].time
                            + SecondsPerBeat(scheduleNoteCalls[Len(scheduleNoteCalls)].bpm)
C7_IsStartStep ==
    /\ scheduleNoteCalls' = << >>
    /\ currentBeat' = 0
    /\ nextNoteTime' = currentTime + StartOffset
C7_BeatTimesArithmetic ==
    /\ []C7_TimesInvariant
    /\ [][nextNoteTime' >= nextNoteTime \/ C7_IsStartStep]_vars

\* C7 witness: a run in which three beats have been scheduled at one tempo,
\* the last of them in a later poll than the first.
C7_Witness ==
    /\ isPlaying
    /\ Len(scheduleNoteCalls) >= 3
    /\ \A i \in 1..Len(scheduleNoteCalls) : scheduleNoteCalls[i].bpm = bpmRef
    /\ currentTime >= scheduleNoteCalls[2].time

\* C8 (useMetronome, SpecMetronome): a beat that was queued before a stop,
\* with a start time after the audio clock at the stop, never sounds
\* afterwards.
C8_NoLateNote ==
    ~lateNote

\* C9 (useMetronome, SpecMetronome): once no start step and no context request
\* is pending, the worker timer runs if and only if isPlaying is true, and the
\* audio context does not run while isPlaying is false.
C9_TimerIffPlaying ==
    ctxOps = << >> =>
        /\ WorkerTicking <=> isPlaying
        /\ ~isPlaying => audioContext # "running"

(***************************************************************************)
(* Prompter: the loudness trigger                                          *)
(***************************************************************************)
\* A step that is a frame of analyzeAudio.
IsAnalysisFrame == \E v \in Volumes : analyzeAudio(v) \/ initAudioGranted(v)

\* A step that is a frame of analyzeAudio with a volume above the threshold.
IsLoudFrame ==
    \E v \in Volumes : v > audioThresholdRef /\ (analyzeAudio(v) \/ initAudioGranted(v))

\* The trigger fires in this step.
TriggerFires == autoTriggers' # autoTriggers

\* C1: the loudness trigger fires, and an analysis frame sets the play state
\* to PLAYING, only in a frame in which the monitor is armed and the counter
\* reaches REQUIRED_CONFIDENCE_FRAMES; the counter is never left at or above it.
C1_TriggerOnlyAtRequired ==
    /\ [](triggerConfidenceCounterRef < REQUIRED_CONFIDENCE_FRAMES)
    /\ [][(TriggerFires \/ (playState' # playState /\ IsAnalysisFrame))
            => /\ IsLoudFrame
               /\ Armed
               /\ triggerConfidenceCounterRef + 1 >= REQUIRED_CONFIDENCE_FRAMES
               /\ playState' = "PLAYING"]_vars

\* The trigger has fired and started playback.
C1_Witness ==
    /\ autoTriggers = 1
    /\ playState = "PLAYING"
    /\ triggeredPlay
    /\ triggerConfidenceCounterRef = 0

\* C2: with the monitor armed, each of the first nine loud frames counts up
\* without a trigger, the loud frame that finds the counter at nine fires the
\* trigger once and makes the play state PLAYING, and while the play state is
\* PLAYING by the trigger no frame fires it again.
C2_TenthLoudFrameFiresOnce ==
    [][/\ (Armed /\ triggerConfidenceCounterRef + 1 < REQUIRED_CONFIDENCE_FRAMES /\ IsLoudFrame)
            => /\ ~TriggerFires
               /\ playState' = playState
               /\ triggerConfidenceCounterRef' = triggerConfidenceCounterRef + 1
       /\ (Armed /\ triggerConfidenceCounterRef + 1 = REQUIRED_CONFIDENCE_FRAMES /\ IsLoudFrame)
            => /\ TriggerFires
               /\ playState' = "PLAYING"
               /\ triggerConfidenceCounterRef' = 0
       /\ (playState = "PLAYING" /\ triggeredPlay) => ~TriggerFires]_vars

\* The trigger has fired once, and a further loud frame ran before the refs
\* were updated: it counted, and nothing fired again.
C2_Witness ==
    /\ playState = "PLAYING"
    /\ triggeredPlay
    /\ autoTriggers = 1
    /\ playStateRef # "PLAYING"
    /\ staleFrames = 1
    /\ triggerConfidenceCounterRef = 1

\* C3 as stated: after a manual pause the trigger does not fire until the
\* 1500 ms the pause armed have passed.
C3_NoTriggerInPauseCooldown == [][TriggerFires => pauseCooldown <= 0]_vars

\* A step of handleReset, by the button or by voice.
IsResetStep == handleReset \/ handleVoiceCommand("reset")

\* C3, amended: the trigger does not fire while a cooldown lasts; a manual
\* pause arms one of 1500 ms, and the cooldown left is never less than what is
\* left of those unless handleReset arms its 1000 ms in their place.
C3_NoTriggerInCooldown ==
    /\ [][TriggerFires => audioCooldownRef = 0]_vars
    /\ [][(playState = "PLAYING" /\ togglePlay) => audioCooldownRef' = PauseCooldown]_vars
    /\ [][audioCooldownRef >= pauseCooldown
             => (audioCooldownRef' >= pauseCooldown' \/ IsResetStep)]_vars

\* The trigger has fired after a manual pause whose cooldown has run out.
C3_Witness ==
    /\ triggeredPlay
    /\ playState = "PLAYING"
    /\ pauseCooldown = 0

\* Some suppression condition holds in the state.
Suppressed ==
    \/ playState = "PLAYING"
    \/ audioCooldownRef > 0
    \/ IsAtEnd(progress)
    \/ isScrollingRef
    \/ ~autoStartEnabled

\* C6: whenever a suppression condition holds, the counter is 0.
C6_CounterZeroWhenSuppressed == Suppressed => triggerConfidenceCounterRef = 0

(***************************************************************************)
(* Prompter: voice control                                                 *)
(***************************************************************************)
\* The sessions that are recognising and have not been told to stop.
RunningSessions == {s \in 1..Len(sessions) : sessions[s] = "running"}

\* C10: at most one speech-recognition session is running at a time, and the
\* onend handler of a session never starts it again once recognitionRef holds
\* a newer session.
C10_OneSessionAtATime ==
    /\ Cardinality(RunningSessions) <= 1
    /\ restarted = {}

(***************************************************************************)
(* useAudioMonitor: a start that is pending when monitoring is disabled    *)
(***************************************************************************)
\* C11: when monitoring is disabled and no startMonitoring call is waiting any
\* more, no media stream is open, no analyse loop runs and triggered is false.
C11_PendingStartSuperseded ==
    (~monitorEnabled /\ resumePending = 0 /\ micPending = 0)
        => (~streamRef /\ ~analyserRef /\ ~triggered)

(***************************************************************************)
(* Prompter: the microphone after auto-start is switched off               *)
(***************************************************************************)
\* C12: when auto-start is off, the switch is committed and no initAudio call
\* is waiting, no stream of the microphone is open and no analysis loop runs.
C12_MicrophoneReleased ==
    (~autoStartEnabled /\ ~autoStartEnabledRef /\ initPending = 0)
        => (~micStreamOpen /\ ~promptAnalyser)

(***************************************************************************)
(* Prompter: the scroll position over the frames of the animation          *)
(***************************************************************************)
\* C13: every frame of the scroll animation while PLAYING leaves the scroll
\* position where it was or further down, and a frame whose timestamp is
\* earlier than the last one leaves it unchanged.
C13_PositionNonDecreasing ==
    [][ /\ (\E d \in AnomalousSteps : animate(d)) => scrollTop' >= scrollTop
        /\ (\E d \in AnomalousSteps : d < 0 /\ animate(d)) => scrollTop' = scrollTop
      ]_vars

(***************************************************************************)
(* LiveMode: a text that fits on the screen                                *)
(***************************************************************************)
\* C14: when the text fits on the screen (scrollHeight - clientHeight <= 0),
\* a frame of LiveMode's scroll loop never sets isScrolling to false, and the
\* progress bar stays at its full height (progress 0).
C14_NoEndWhenContentFits ==
    [][ ((\E moveAmount \in MoveAmounts : scroll(moveAmount)) /\ containerMaxScroll <= 0)
            => (isScrolling' = isScrolling /\ barHeight' = 100) ]_vars

(***************************************************************************)
(* Prompter: the end of the text                                           *)
(***************************************************************************)
\* C15: while the Prompter is PLAYING, the text overflows the screen and the
\* user is not touching, the frames of the animation bring the position to
\* maxScroll, and the frame that brings it within one unit of maxScroll
\* changes the state to PAUSED, which stops the animation.
C15_PausedWithinTolerance ==
    [][ ( /\ \E d \in ScrollSteps : animate(d)
          /\ playState = "PLAYING" /\ maxScroll > 0 /\ ~isScrollingRef
          /\ scrollTop' >= maxScroll - 1 )
            => playState' = "PAUSED" ]_vars

(***************************************************************************)
(* Prompter: the pause commands                                            *)
(***************************************************************************)
\* The pause button (togglePlay) or a voice pause utterance.
IsPauseCommand == togglePlay \/ handleVoiceCommand("pause")

\* C16: a pause command moves the play state to PAUSED only from PLAYING, and
\* a voice pause utterance received while the state is STOPPED leaves it
\* STOPPED.
C16_PauseOnlyFromPlaying ==
    [][ /\ (IsPauseCommand /\ playState' = "PAUSED" /\ playState # "PAUSED")
              => playState = "PLAYING"
        /\ (handleVoiceCommand("pause") /\ playState = "STOPPED")
              => playState' = "STOPPED" ]_vars

(***************************************************************************)
(* Prompter: reset                                                         *)
(***************************************************************************)
\* C17: a reset by the button or by voice, from any play state, leaves the
\* state STOPPED with scroll position 0, progress 0, confidence counter 0 and
\* a cooldown armed, and no frame of the animation moves the position away
\* from 0 while the state is still STOPPED.
C17_ResetStopsAtTop ==
    [][ /\ IsResetStep =>
              /\ playState' = "STOPPED" /\ scrollTop' = 0 /\ progress' = 0
              /\ triggerConfidenceCounterRef' = 0 /\ audioCooldownRef' > 0
        /\ ((\E d \in ScrollSteps : animate(d)) /\ playState = "STOPPED" /\ scrollTop = 0)
              => scrollTop' = 0 ]_vars

(***************************************************************************)
(* Prompter: the precedence of the voice commands                          *)
(***************************************************************************)
\* The commands in the order of their precedence.
CommandNames == << "play", "pause", "reset", "faster", "slower", "exit" >>

\* The keyword groups of which an utterance holds a keyword.
MatchingGroups(text) ==
    {g \in 1..Len(KeywordGroups) : \E kw \in KeywordGroups[g] : Includes(text, kw)}

\* The command of the first matching group, "none" when no group matches.
FirstMatch(text) ==
    IF MatchingGroups(text) = {} THEN "none"
    ELSE CommandNames[CHOOSE g \in MatchingGroups(text) :
                          \A h \in MatchingGroups(text) : g <= h]

\* What one command does to the play state, the position, the trigger, the
\* speed and the exit, and nothing more.
CommandEffect(cmd) ==
    /\ playState' = CASE cmd = "play" -> "PLAYING"
                      [] cmd = "pause" -> "PAUSED"
                      [] cmd = "reset" -> "STOPPED"
                      [] OTHER -> playState
    /\ scrollSpeed' = CASE cmd = "faster" /\ scrollSpeed < MaxScrollSpeed -> scrollSpeed + SpeedStep
                        [] cmd = "slower" /\ scrollSpeed > MinScrollSpeed -> scrollSpeed - SpeedStep
                        [] OTHER -> scrollSpeed
    /\ exited' = (cmd = "exit")
    /\ scrollTop' = IF cmd = "reset" THEN 0 ELSE scrollTop
    /\ progress' = IF cmd = "reset" THEN 0 ELSE progress
    /\ audioCooldownRef' = CASE cmd = "pause" -> VoicePauseCooldown
                             [] cmd = "reset" -> ResetCooldown
                             [] OTHER -> audioCooldownRef
    /\ triggerConfidenceCounterRef' =
           IF cmd \in {"pause", "reset"} THEN 0 ELSE triggerConfidenceCounterRef

\* C18: handleVoiceCommand takes for each utterance the command of the first
\* keyword group that matches, in the order play, pause, reset, speed up,
\* slow down, exit (an utterance with a play and a pause keyword is a play),
\* does what that one command does and nothing of another, and changes
\* nothing for an utterance without a keyword.
C18_FirstMatchWins ==
    /\ [](\A text \in Utterances : CommandOf(text) = FirstMatch(text))
    /\ [][\A cmd \in {"none"} \cup {CommandNames[g] : g \in 1..Len(CommandNames)} :
              VoiceCommandBody(cmd) => CommandEffect(cmd)]_vars

\* An utterance with a play and a pause keyword was handled last, and the
\* Prompter is PLAYING with no pause cooldown armed.
C18_Witness ==
    heard /\ playState = "PLAYING" /\ audioCooldownRef = 0 /\ ~exited

(***************************************************************************)
(* Prompter: the voice control restarts a session that ends                *)
(***************************************************************************)
\* Voice control is switched on and the device is online.
VoiceWanted == voiceControlEnabled /\ onLine

C20_NoRestartAfterDenied ==
    [][\A s \in 1..Len(sessions) :
          /\ onerror(s, "not-allowed") => (~voiceControlEnabled' /\ micError')
          /\ (onend(s) /\ denied) => sessions'[s] # "starting"]_vars

(***************************************************************************)
(* Prompter: voice control and the connectivity events                     *)
(***************************************************************************)
\* A session that is listening or about to.
ListeningSessions ==
    {s \in 1..Len(sessions) : sessions[s] \in {"starting", "running"}}

\* C21: an offline event while voice control is enabled switches
\* voiceControlEnabled off, and when that is committed while the browser is
\* still offline no session is left listening; voiceControlEnabled becomes
\* true only in a step of the voice button, never in the online event or in
\* any other step.
C21_OfflineDisablesVoice ==
    /\ [][(voiceCommitted /\ onLine /\ ~onLine') => ~voiceControlEnabled']_vars
    /\ [][(voiceCommitted /\ ~voiceCommitted' /\ ~onLine') => ListeningSessions' = {}]_vars
    /\ [][(~voiceControlEnabled /\ voiceControlEnabled') => toggleVoice]_vars

(***************************************************************************)
(* Prompter, lazy-load revision: no listening while offline                *)
(***************************************************************************)
\* A session of the revision that is listening or about to.
LazyListening ==
    {s \in 1..Len(lazy.sessions) : lazy.sessions[s].state \in {"starting", "running"}}

\* Session `s` is started in this step: created and started by the voice
\* effect, or started again by its onend handler.
LazyStarted(s) ==
    /\ s <= Len(lazy'.sessions)
    /\ lazy'.sessions[s].state = "starting"
    /\ s > Len(lazy.sessions) \/ lazy.sessions[s].state # "starting"

\* C22: in the lazy-load revision no session is started or started again in
\* a step after which the rendered isOffline is true, and while the rendered
\* isOffline is true no session is listening.
C22_NoSessionWhileOffline ==
    /\ [](lazy.rendered.offline => LazyListening = {})
    /\ [][\A s \in 1..MaxSessions : LazyStarted(s) => ~lazy'.rendered.offline]_vars

(***************************************************************************)
(* Prompter: the microphone request that fails                             *)
(***************************************************************************)
\* C23: every microphone request of initAudio that ends either sets up the
\* monitor (the analyser and the stream) or, when access is denied or the
\* capture fails, switches auto-start off and sets micError; and the step in
\* which auto-start is rendered enabled again requests the microphone once
\* more and clears micError.
C23_DeniedDisablesAndRecovers ==
    /\ [][initPending' < initPending
            => \/ promptAnalyser' /\ micStreamOpen'
               \/ ~autoStartEnabled' /\ micError']_vars
    /\ [][(~autoStartEnabledRef /\ autoStartEnabledRef')
            => (initPending' = initPending + 1 /\ ~micError')]_vars

\* Access was denied, auto-start is rendered off with the error flag set, and
\* the auto-start button can be pressed again.
C23_Witness ==
    /\ micError /\ ~autoStartEnabled /\ ~autoStartEnabledRef
    /\ ~promptAnalyser /\ ~micStreamOpen
    /\ initPending = 0 /\ ~exited

(***************************************************************************)
(* useMetronome: the downbeat                                              *)
(***************************************************************************)
\* C24: the step that stops the metronome sets the beat index to 0, and
\* the first beat passed to scheduleNote after a start step is beat 0,
\* whatever starts, stops and polls came before.
C24_StartsOnDownbeat ==
    /\ [][(isPlaying /\ ~isPlaying') => currentBeat' = 0]_vars
    /\ [](scheduleNoteCalls # << >> => scheduleNoteCalls[1].beat = 0)

\* The metronome was stopped and started again, and the run since then has
\* scheduled its downbeat and the beat after it.
C24_Witness ==
    /\ isPlaying /\ stops >= 1 /\ ctxOps = << >>
    /\ Len(scheduleNoteCalls) >= 2
    /\ scheduleNoteCalls[2].beat = 1

(***************************************************************************)
(* useMetronome: the drum pattern                                          *)
(***************************************************************************)
\* C25: in drums mode beat 0 is a kick; in a bar of 4 beats beat 2 is a
\* kick and beats 1 and 3 are a snare, so that the beats 0, 1, 2, 3 sound
\* kick, snare, kick, snare; in a bar of any other length every beat other
\* than beat 0 is a hi-hat.
C25_DrumPattern ==
    /\ \A i \in 1..Len(drums.calls) :
          drums.calls[i].type = "drums" =>
             /\ drums.calls[i].beat = 0 => drums.calls[i].sound = "kick"
             /\ (drums.bars = 4 /\ drums.calls[i].beat = 2) => drums.calls[i].sound = "kick"
             /\ (drums.bars = 4 /\ drums.calls[i].beat \in {1, 3}) => drums.calls[i].sound = "snare"
             /\ (drums.bars # 4 /\ drums.calls[i].beat # 0) => drums.calls[i].sound = "hi-hat"
    /\ (/\ drums.bars = 4
        /\ Len(drums.calls) >= 4
        /\ \A i \in 1..4 : drums.calls[i].type = "drums")
       => /\ [i \in 1..4 |-> drums.calls[i].beat] = << 0, 1, 2, 3 >>
          /\ [i \in 1..4 |-> drums.calls[i].sound] = << "kick", "snare", "kick", "snare" >>

\* A whole bar of 4 beats has sounded in drums mode.
C25_Witness ==
    /\ drums.bars = 4
    /\ Len(drums.calls) = 4
    /\ \A i \in 1..4 : drums.calls[i].type = "drums"

\* A bar of 3 beats has sounded in drums mode.
C25_WitnessOtherLength ==
    /\ drums.bars = 3
    /\ Len(drums.calls) >= 3
    /\ \A i \in 1..3 : drums.calls[i].type = "drums"

(***************************************************************************)
(* LiveMode: the click track and the scroll playback                       *)
(***************************************************************************)
\* C26: a step that starts, pauses or resets the scrolling, moves the text
\* or ends the scrolling at the end of the text leaves the metronome's
\* isPlaying, beat index and nextNoteTime as they are, and a step that
\* toggles the metronome leaves isScrolling and the scroll position as they
\* are.
C26_ClickIndependentOfScroll ==
    /\ [][(isScrolling' # isScrolling \/ containerScrollTop' # containerScrollTop)
            => UNCHANGED << isPlaying, currentBeat, nextNoteTime >>]_vars
    /\ [][isPlaying' # isPlaying => UNCHANGED << isScrolling, containerScrollTop >>]_vars

\* The click track is running and has scheduled beats, and the scrolling the
\* user started has stopped at the end of the text.
C26_Witness ==
    /\ isPlaying /\ Len(scheduleNoteCalls) >= 2
    /\ startedBy = "user" /\ ~isScrolling
    /\ containerScrollTop >= containerMaxScroll - 1

(***************************************************************************)
(* LiveMode: the tempo stays in its range                                  *)
(***************************************************************************)
\* A tempo of 30..300 bpm.
InBpmRange(v) == MinBpm <= v /\ v <= MaxBpm

AllWhole == IsWhole(tempo.bpm) /\ IsWhole(tempo.songBpm) /\ IsWhole(tempo.written)

InSpeedRange(v) == v >= MinSpeed /\ v <= MaxSpeed

\* C28: after any sequence of PageDown (x1.1) and PageUp (x0.9) presses
\* while scrolling, starting from a scroll speed within 5..200, the scroll
\* speed written back through onUpdate stays within 5..200.
C28_PedalSpeedInRange ==
    pedal.written # 0 => InSpeedRange(pedal.written)

\* The part of C28 the code keeps: the speed written is never below 5.
C28_PedalSpeedAtLeastMin ==
    pedal.written # 0 => pedal.written >= MinSpeed

\* The file is a single song object with a title and lyrics and no id.
SingleSongWithoutId ==
    /\ library.parsed.shape = "object"
    /\ TruthyString(library.parsed.entries[1].title)
    /\ TruthyString(library.parsed.entries[1].lyrics)
    /\ library.parsed.entries[1].id = << >>

\* The step in which importLibrary ends.
ImportEnds == library.result = Pending /\ library'.result # Pending

\* C29: importing a single song object that has a title and lyrics but no
\* id skips the entry and returns the count 0, and nothing is written to
\* the store.
C29_NoIdReturnsZero ==
    [][(SingleSongWithoutId /\ ImportEnds)
        => (library'.result = Returned(0) /\ library'.store = library.store)]_vars

\* The part of C29 the code keeps: the entry is skipped, nothing is written.
C29_NoIdWritesNothing ==
    [][(SingleSongWithoutId /\ ImportEnds) => library'.store = library.store]_vars

\* The file has one entry, with an id and a title, in a shape importLibrary
\* takes: in an array, in a library object, or as a single song object
\* (which is recognised by its title and lyrics).
OneValidEntry ==
    /\ library.parsed.shape \in {"array", "library", "object"}
    /\ Len(library.parsed.entries) = 1
    /\ TruthyString(library.parsed.entries[1].id)
    /\ TruthyString(library.parsed.entries[1].title)
    /\ library.parsed.shape = "object" => TruthyString(library.parsed.entries[1].lyrics)

\* The setting stored for a field of the entry: the entry's, or else the
\* value DEFAULT_SONG has.
Imported(field, defaultValue) ==
    IF Len(field) = 1 THEN field[1] ELSE defaultValue

\* C30: a song entry that has an id and a title is accepted (counted once),
\* and the stored song has the DEFAULT_SONG values for fontsize, scrollspeed,
\* audioTrigger.threshold and every metronome field the entry does not have,
\* with fields present in the entry overriding the defaults field by field.
C30_DefaultsFieldByField ==
    (OneValidEntry /\ library.result # Pending) =>
        LET rawSong == library.parsed.entries[1]
            saved == library.store[rawSong.id[1]]
            trigger == IF rawSong.audioTrigger = << >> THEN << >>
                       ELSE rawSong.audioTrigger[1].threshold
            click(f) == IF rawSong.metronome = << >> THEN << >>
                        ELSE rawSong.metronome[1][f]
        IN  /\ library.result = Returned(1)
            /\ Len(saved) = 1
            /\ saved[1].id = rawSong.id[1]
            /\ saved[1].title = rawSong.title[1]
            /\ saved[1].fontsize = Imported(rawSong.fontsize, 48)
            /\ saved[1].scrollspeed = Imported(rawSong.scrollspeed, 30)
            /\ saved[1].audioTrigger.threshold = Imported(trigger, 0 - 35)
            /\ saved[1].metronome.bpm = Imported(click("bpm"), 120)
            /\ saved[1].metronome.beatsPerBar = Imported(click("beatsPerBar"), 4)
            /\ saved[1].metronome.clickPitch = Imported(click("clickPitch"), 1000)
            /\ saved[1].metronome.enabled = Imported(click("enabled"), FALSE)

\* An entry with an id and a title and no settings has been imported over
\* the song saved earlier under its id, and has the default settings.
C30_Witness ==
    /\ OneValidEntry
    /\ library.result = Returned(1)
    /\ \A f \in DOMAIN BareSettings : library.parsed.entries[1][f] = << >>
    /\ library.parsed.entries[1].id = << "a" >>
    /\ library.store["a"] # << SavedSong >>
    /\ library.store["a"][1].fontsize = DEFAULT_SONG.fontsize
    /\ library.store["a"][1].metronome = DEFAULT_SONG.metronome

(***************************************************************************)
(* C31.  For every library that the saves of the application can produce,  *)
(* exportLibrary followed by importLibrary into an empty store gives back  *)
(* the same songs (the same ids, the same value of every field) and the    *)
(* import returns the number of songs of the library.                      *)
(***************************************************************************)
\* The import of an exported library has ended.
RoundTripDone == library.parsed.shape = "library" /\ library.result # Pending

C31_RoundTrip ==
    RoundTripDone =>
        /\ library.store = library.exported
        /\ library.result = Returned(Cardinality(Present(library.exported)))

\* The same, for the libraries in which every song has a title.
AllTitled(store) == \A id \in Present(store) : store[id][1].title # ""

C31_TitledRoundTrip ==
    (RoundTripDone /\ AllTitled(library.exported)) =>
        /\ library.store = library.exported
        /\ library.result = Returned(Cardinality(Present(library.exported)))

\* A library of two titled songs in a playlist order has gone round.
C31_TitledWitness ==
    /\ RoundTripDone
    /\ AllTitled(library.exported)
    /\ Present(library.exported) = SongIds
    /\ library.exported["b"][1].order = << 0 >>
    /\ library.store = library.exported

(***************************************************************************)
(* C32.  importLibrary writes to the store exactly the entries that        *)
(* individually validate (have both an id and a title) and returns their   *)
(* number; on malformed JSON or an unrecognized shape it raises an error   *)
(* and leaves the store unchanged.                                         *)
(***************************************************************************)
\* The entry has an id and a title.
Validates(rawSong) ==
    /\ rawSong.id # << >> /\ rawSong.id[1] # ""
    /\ rawSong.title # << >> /\ rawSong.title[1] # ""

ValidEntries(entries) == {i \in DOMAIN entries : Validates(entries[i])}

\* The text is an array, a library object or a single song object.
Recognised(parsed) ==
    \/ parsed.shape \in {"array", "library"}
    \/ /\ parsed.shape = "object"
       /\ parsed.entries[1].title \notin {<< >>, << "" >>}
       /\ parsed.entries[1].lyrics \notin {<< >>, << "" >>}

\* Under every id the store has the last valid entry with that id, merged
\* with the defaults, and what it had before when there is none.
WritesExactlyValid ==
    LET entries == library.parsed.entries
    IN  \A id \in SongIds :
            LET hits == {i \in ValidEntries(entries) : entries[i].id[1] = id}
                last == CHOOSE i \in hits : \A j \in hits : j <= i
            IN  IF hits = {} THEN library'.store[id] = library.store[id]
                ELSE \E now \in ImportTimes :
                        library'.store[id] = << MergedSong(entries[last], now) >>

FailsUnchanged == library'.result.kind = "error" /\ library'.store = library.store

FileShapes == {"array", "library", "object"}

SingleValidEntry ==
    /\ library.parsed.shape \in FileShapes
    /\ Len(library.parsed.entries) = 1
    /\ Validates(library.parsed.entries[1])

\* The step ends as the import of the same entry in the shape sh can end.
SameAsInShape(sh) ==
    \E now \in ImportTimes :
        LET other == importResult([shape |-> sh, entries |-> library.parsed.entries],
                                  library.store, now)
        IN  library'.store = other.store /\ library'.result = other.result

C40_ShapeIndependent ==
    [][(ImportEnds /\ SingleValidEntry) => \A sh \in FileShapes : SameAsInShape(sh)]_vars

\* The same, for the entries that have lyrics.
HasLyrics == library.parsed.entries[1].lyrics \notin {<< >>, << "" >>}

C40_ShapeIndependentWithLyrics ==
    [][(ImportEnds /\ SingleValidEntry /\ HasLyrics)
        => \A sh \in FileShapes : SameAsInShape(sh)]_vars

(***************************************************************************)
(* useMetronome: tempo changes, the beat index, the lookahead              *)
(***************************************************************************)
\* C33: a bpm change during a run is never retroactive.  The step that
\* changes the tempo leaves the beats already passed to scheduleNote, the
\* notes on the audio graph and nextNoteTime as they are; the calls of a run
\* are only ever added to; and the beats a poll passes to scheduleNote start
\* at the nextNoteTime found by the poll, each interval added by nextNote
\* being 60/bpm for the bpm in force at that poll.
CallsKept ==
    /\ Len(scheduleNoteCalls') >= Len(scheduleNoteCalls)
    /\ \A i \in 1..Len(scheduleNoteCalls) : scheduleNoteCalls'[i] = scheduleNoteCalls[i]

AddedFromNextNoteTime ==
    LET old == Len(scheduleNoteCalls)
        new == Len(scheduleNoteCalls')
    IN  new > old =>
            /\ scheduleNoteCalls'[old + 1].time = nextNoteTime
            /\ \A i \in (old + 1)..(new - 1) :
                  scheduleNoteCalls'[i + 1].time
                      = scheduleNoteCalls'[i].time + SecondsPerBeat(bpmRef)
            /\ nextNoteTime' = scheduleNoteCalls'[new].time + SecondsPerBeat(bpmRef)

C33_BpmChangeNotRetroactive ==
    [][/\ bpmRef' # bpmRef =>
            /\ scheduleNoteCalls' = scheduleNoteCalls
            /\ queuedNotes' = queuedNotes
            /\ nextNoteTime' = nextNoteTime
       /\ scheduleNoteCalls' = << >> \/ (CallsKept /\ AddedFromNextNoteTime)]_vars

\* The tempo went from 300 to 240 between the second beat and the third:
\* the third came one old interval after the second, the fourth is due one
\* new interval after the third.
C33_Witness ==
    /\ isPlaying
    /\ Len(scheduleNoteCalls) = 3
    /\ scheduleNoteCalls[2].bpm = 300
    /\ scheduleNoteCalls[3].bpm = 240
    /\ scheduleNoteCalls[3].time = scheduleNoteCalls[2].time + SecondsPerBeat(300)
    /\ nextNoteTime = scheduleNoteCalls[3].time + SecondsPerBeat(240)

\* C34: the beat index is within 0..beatsPerBar-1 in every state, and so
\* is every beat number passed to scheduleNote, also when beatsPerBar
\* becomes smaller while the metronome runs.
BeatIndexInBar == currentBeat \in 0..(beatsPerBarRef - 1)

AddedBeatsInBar ==
    \A i \in (Len(scheduleNoteCalls) + 1)..Len(scheduleNoteCalls') :
        scheduleNoteCalls'[i].beat \in 0..(beatsPerBarRef - 1)

C34_BeatWithinBar ==
    /\ []BeatIndexInBar
    /\ [][AddedBeatsInBar]_vars

\* C37: the worker never has more than one live interval timer, and once
\* it has processed a "stop" (timerID is null) no interval is left to post
\* a "tick", whatever "start" and "stop" messages came before.
LiveIntervals == (IF timerID THEN 1 ELSE 0) + lostTimers

C37_OneLiveInterval ==
    /\ LiveIntervals <= 1
    /\ ~timerID => ~WorkerTicking

\* C35: if every gap between successive polls, and between the start and
\* the first poll, is shorter than the lookahead window, every beat is
\* passed to scheduleNote with a start time that is not earlier than the
\* audio clock at that poll and is less than the clock plus the lookahead,
\* and after each poll nextNoteTime is at least the clock plus the
\* lookahead.  Stated for each poll: the gap that ends with it being short
\* is enough, since what a poll finds depends on the polls before it only
\* through nextNoteTime.
PollGap == currentTime' - currentTime

IsPoll == currentTime' # currentTime \/ Len(scheduleNoteCalls') > Len(scheduleNoteCalls)

IsFirstPoll == scheduleNoteCalls = << >>

AddedWithinLookahead ==
    /\ \A i \in (Len(scheduleNoteCalls) + 1)..Len(scheduleNoteCalls') :
          /\ scheduleNoteCalls'[i].time >= currentTime'
          /\ scheduleNoteCalls'[i].time < currentTime' + scheduleAheadTime
    /\ nextNoteTime' >= currentTime' + scheduleAheadTime

C35_BeatsWithinLookahead ==
    [][(IsPoll /\ PollGap < scheduleAheadTime) => AddedWithinLookahead]_vars

\* As the code has it: the first beat is due 50 ms after the start, so the
\* first poll has to come within those 50 ms.
C35_BeatsWithinLookaheadAfterPromptPoll ==
    [][(/\ IsPoll
        /\ PollGap < scheduleAheadTime
        /\ IsFirstPoll => PollGap <= StartOffset) => AddedWithinLookahead]_vars

\* The first poll came 50 ms after the start and passed the downbeat, due
\* at that very time; a later poll has passed the second beat ahead of its
\* time.
C35_Witness ==
    /\ isPlaying /\ stops = 0
    /\ Len(scheduleNoteCalls) = 2
    /\ scheduleNoteCalls[1].time = StartOffset
    /\ scheduleNoteCalls[2].time > currentTime
    /\ scheduleNoteCalls[2].time < currentTime + scheduleAheadTime
    /\ nextNoteTime >= currentTime + scheduleAheadTime
    /\ \E n \in queuedNotes : n.time = scheduleNoteCalls[2].time

(***************************************************************************)
(* Prompter: the offline flag after a "network" error                      *)
(***************************************************************************)
\* C39: whenever the browser is online the user can enable voice control:
\* once isOffline is set while the browser is online (by a "network" error
\* of the recognition), it is cleared again, or else the browser has gone
\* offline meanwhile.
C39_OfflineFlagClears ==
    (isOffline /\ onLine) ~> (~isOffline \/ ~onLine)

(***************************************************************************)
(* Prompter: a touch on the scroller                                       *)
(***************************************************************************)
\* C36: while a touch that has started has not yet ended, isScrollingRef
\* is true (so that the scroll animation and the auto-trigger stay
\* suspended), also when the 200 ms timer of an earlier gesture expires
\* during the touch.
C36_TouchKeepsScrollingRef ==
    gesture.touching => gesture.isScrollingRef

\* What follows from it: neither the animation nor the trigger acts while
\* a finger is on the scroller.
C36_NothingMovesUnderFinger ==
    ~gesture.overridden

(***************************************************************************)
(* Prompter and App: the settings write-back                               *)
(***************************************************************************)
\* C38: the settings write-back quiesces: after the last change the user
\* makes, onUpdateSongSettings is invoked only finitely many times, so that
\* from some point on no run of the effect is due and the App has no update
\* to render.
WritebackQuiet == ~writeback.effectDue /\ ~writeback.appDirty

C38_WritebackQuiesces ==
    <>[]WritebackQuiet

====
